---- MODULE Spec2Model ----
(***************************************************************************)
(* A model of the markdown renderer of moltbook-frontend                   *)
(* (src/src/components/common/markdown.tsx): parseMarkdown, highlightCode  *)
(* and the components that call them.                                      *)
(*                                                                         *)
(* A JavaScript string is a sequence of one-character strings.  Every      *)
(* String.prototype.replace(regex, ...) of the source is modelled by an    *)
(* operator that finds the leftmost match as the regex engine does         *)
(* (greedy and lazy quantifiers, backtracking, the g, m and i flags) and   *)
(* substitutes the replacement template.                                   *)
(***************************************************************************)
EXTENDS Integers, Sequences, FiniteSets, TLC

VARIABLES
  content,      \* Markdown prop: the text to render
  allowHtml,    \* Markdown prop
  html,         \* the string Markdown injects (parseMarkdown's result)
  mdPc,         \* "idle" | "props" | "rendered"
  code,         \* CodeBlock prop: the source code
  language,     \* CodeBlock prop: the language name
  highlighted,  \* highlightCode's result, or TypeError when it throws
  hlPc,         \* "idle" | "props" | "rendered"
  showLineNumbers, \* CodeBlock prop
  rows,         \* the cells of the table CodeBlock shows, one for each line
  \* useOptimisticUpdate
  ouValue,      \* state value
  ouIsUpdating, \* state isUpdating
  ouError,      \* state error
  ouPrevious,   \* previousValueRef.current
  ouSeen,       \* the value the update callback of the last render closes over
  ouCalls,      \* each update call: where it stands, and the value that was
                \* current when it was made
  ouRollbacks,  \* the catch blocks that ran: the call, what rollbackFn
                \* received and the value that was restored
  \* useInfiniteCursor
  icItems,      \* state items; the item of page k is k
  icCursor,     \* state cursor; NoCursor stands for undefined
  icHasMore,    \* state hasMore
  icIsLoading,  \* state isLoading
  icIsLoadingMore, \* state isLoadingMore
  icError,      \* state error
  icSeen,       \* what the loadMore callback of the last render closes over
  icFetches,    \* each fetchFn call: who made it, with which cursor, and how
                \* many refresh calls had been started by then
  icRefreshes,  \* the number of refresh calls started
  icAppends,     \* the pages loadMore appended, each with the refresh count
                \* of its call and the refresh count when it was appended
  \* useAsyncEffect
  aeRuns,       \* each run of the effect: its promise, its variables cleanup
                \* and cancelled, and how often the function it resolved to
                \* was invoked
  aeMounted,    \* the run whose teardown React holds, 0 for none
  aeUnmounted,   \* the component was unmounted
  \* useLazyLoad
  llData,       \* state data
  llIsLoading,  \* state isLoading
  llError,      \* state error
  llLoaded,     \* loadedRef.current
  llSeen,       \* the data the load callback of the last render closes over
  llCalls,      \* each load call: where it stands, what it returned, and which
                \* earlier invocations of loadFn had not failed when it invoked
                \* loadFn
  \* useMutation
  muIsLoading,  \* state isLoading
  muError,      \* state error
  muData,       \* state data
  muCalls,      \* each mutate call: where it stands
  \* useFormState
  fsState,      \* the reducer's state: status and error
  fsLog,        \* the actions dispatched so far
  \* ImageLightbox
  lbLength,     \* images.length
  lbCurrentIndex, \* state currentIndex
  lbZoom,       \* state zoom, counted in steps of 0.5
  lbRotation,   \* state rotation
  lbLast,       \* the last change of currentIndex: which handler, and from
                \* which index
  \* EmojiPicker
  epRecent,     \* state recentEmojis
  epOpen,       \* state open
  epStored,     \* localStorage's value under 'moltbook_recent_emojis', Null
                \* when absent
  epPc,         \* constructed, or mounted once the loading effect has run
  epLast        \* the emoji of the last handleSelect call, as a list of one;
                \* empty before

mdVars == <<content, allowHtml, html, mdPc>>
hlVars == <<code, language, highlighted, hlPc, showLineNumbers, rows>>
ouVars == <<ouValue, ouIsUpdating, ouError, ouPrevious, ouSeen, ouCalls, ouRollbacks>>
icVars ==
  <<icItems, icCursor, icHasMore, icIsLoading, icIsLoadingMore, icError, icSeen, icFetches,
    icRefreshes, icAppends>>
aeVars == <<aeRuns, aeMounted, aeUnmounted>>
llVars == <<llData, llIsLoading, llError, llLoaded, llSeen, llCalls>>
muVars == <<muIsLoading, muError, muData, muCalls>>
fsVars == <<fsState, fsLog>>
lbVars == <<lbLength, lbCurrentIndex, lbZoom, lbRotation, lbLast>>
epVars == <<epRecent, epOpen, epStored, epPc, epLast>>
hookVars == <<ouVars, icVars, aeVars, llVars, muVars, fsVars, lbVars, epVars>>
vars == <<mdVars, hlVars, hookVars>>

----------------------------------------------------------------------------
(* Character classes of the regular expressions, over the characters the   *)
(* model's inputs and the renderer's templates are written in.             *)

LowerLetters ==
  {"a", "b", "c", "d", "e", "f", "g", "h", "i", "j", "k", "l", "m",
   "n", "o", "p", "q", "r", "s", "t", "u", "v", "w", "x", "y", "z"}
UpperLetters == {"A", "B", "C", "D", "E", "F", "H", "I", "J", "L", "P", "S", "T", "X", "Y"}
Digits == {"0", "1", "2", "3", "4", "5", "6", "7", "8", "9"}
\* The grave accent (U+0060).  A string literal of this language cannot hold
\* that character, so the model names it.
Backtick == "GRAVE"
Punctuation ==
  {"&", "<", ">", Backtick, "#", "*", "_", "~", "[", "]", "(", ")", "!", "-",
   ".", "/", "\"", "'", "\\", "=", ";", ":", ",", "+", "?"}
WhiteSpace == {" ", "\t", "\n"}
Char == LowerLetters \cup UpperLetters \cup Digits \cup Punctuation \cup WhiteSpace

\* \w
IsWordChar(c) == c \in LowerLetters \cup UpperLetters \cup Digits \cup {"_"}
\* \d
IsDigit(c) == c \in Digits
\* \s
IsSpace(c) == c \in WhiteSpace
\* a line terminator: what . does not match and what ^ and $ (m flag) border
IsLineTerminator(c) == c = "\n"

\* String.prototype.toLowerCase, character by character
LowerOf(c) ==
  CASE c = "A" -> "a" [] c = "B" -> "b" [] c = "C" -> "c" [] c = "D" -> "d"
    [] c = "E" -> "e" [] c = "F" -> "f" [] c = "H" -> "h" [] c = "I" -> "i"
    [] c = "J" -> "j" [] c = "L" -> "l" [] c = "P" -> "p" [] c = "S" -> "s"
    [] c = "T" -> "t" [] c = "X" -> "x" [] c = "Y" -> "y" [] OTHER -> c
toLowerCase(s) == [k \in 1..Len(s) |-> LowerOf(s[k])]

----------------------------------------------------------------------------
(* Regex machinery.                                                        *)

\* the literal p occurs in s at index i
At(s, i, p) ==
  /\ i >= 1
  /\ i + Len(p) - 1 <= Len(s)
  /\ \A k \in 1..Len(p) : s[i + k - 1] = p[k]

\* the literal p occurs in s at index i, letters compared without case (i flag)
AtIgnoreCase(s, i, p) ==
  /\ i >= 1
  /\ i + Len(p) - 1 <= Len(s)
  /\ \A k \in 1..Len(p) : LowerOf(s[i + k - 1]) = LowerOf(p[k])

\* s has p as a substring
Contains(s, p) == \E i \in 1..(Len(s) - Len(p) + 1) : At(s, i, p)

\* ^ under the m flag: the start of the input or just after a line terminator
LineStart(s, i) == i = 1 \/ (i > 1 /\ i - 1 <= Len(s) /\ IsLineTerminator(s[i - 1]))

\* $ under the m flag, holding just after index e
LineEndAfter(s, e) == e = Len(s) \/ (e < Len(s) /\ IsLineTerminator(s[e + 1]))

\* the least index in lo..hi that satisfies P, hi + 1 when none does (lo when
\* the range is empty): a left-to-right scan
FirstIndex(lo, hi, P(_)) ==
  IF lo > hi THEN lo
  ELSE CHOOSE k \in lo..(hi + 1) :
         /\ k = hi + 1 \/ P(k)
         /\ \A j \in lo..(k - 1) : ~P(j)

\* the greatest index in lo..hi that satisfies P, lo - 1 when none does
LastIndex(lo, hi, P(_)) ==
  IF lo > hi THEN lo - 1
  ELSE CHOOSE k \in (lo - 1)..hi :
         /\ k = lo - 1 \/ P(k)
         /\ \A j \in (k + 1)..hi : ~P(j)

\* the last index of the longest run of characters of a class that starts at
\* index i (i - 1 when the run is empty): a greedy X* or X+
RunEnd(s, i, InClass(_)) ==
  LET Outside(k) == ~InClass(s[k])
  IN FirstIndex(i, Len(s), Outside) - 1

\* the last index of the line that holds index i (i - 1 when s[i] ends it)
NotLineTerminator(c) == ~IsLineTerminator(c)
EndOfLine(s, i) == RunEnd(s, i, NotLineTerminator)

\* the least index >= i at which the literal p occurs, 0 when there is none:
\* where a lazy [\s\S]*? stops
FirstAt(s, i, p) ==
  LET Hit(k) == At(s, k, p)
      r == FirstIndex(i, Len(s), Hit)
  IN IF r > Len(s) THEN 0 ELSE r

\* the greatest index in lo..hi at which the literal p occurs, 0 when there is
\* none: where a greedy .* followed by p ends after backtracking
LastAt(s, lo, hi, p) ==
  LET Hit(k) == At(s, k, p)
      r == LastIndex(lo, hi, Hit)
  IN IF r < lo THEN 0 ELSE r

\* String.prototype.replace with a g-flag regex none of whose matches is
\* empty.  MatchEnd(s, i) is the last index of the match that starts at
\* index i, 0 when the regex does not match there; Repl(s, i, e) is the text
\* that replaces the match s[i..e].  The scan resumes after each match and does
\* not re-read what it substituted.
ReplaceAll(s, MatchEnd(_, _), Repl(_, _, _)) ==
  LET n == Len(s)
      Hit(k) == MatchEnd(s, k) # 0
      RECURSIVE go(_)
      go(from) ==
        LET i == FirstIndex(from, n, Hit)
        IN IF i > n THEN SubSeq(s, from, n)
           ELSE SubSeq(s, from, i - 1) \o Repl(s, i, MatchEnd(s, i))
                  \o go(MatchEnd(s, i) + 1)
  IN go(1)

\* what a thrown TypeError leaves in place of a result: no string
TypeError == <<"TypeError">>

\* F applied to the value of v: one statement of the source run after the one
\* that produced v
Then(v, F(_)) == CHOOSE y \in {F(x) : x \in {v}} : TRUE

\* String.prototype.trim
Trim(s) ==
  LET NotSpace == {k \in 1..Len(s) : ~IsSpace(s[k])}
      Lo == CHOOSE k \in NotSpace : \A j \in NotSpace : k <= j
      Hi == CHOOSE k \in NotSpace : \A j \in NotSpace : k >= j
  IN IF NotSpace = {} THEN <<>> ELSE SubSeq(s, Lo, Hi)

\* String.prototype.startsWith
StartsWith(s, p) == At(s, 1, p)

----------------------------------------------------------------------------
(* parseMarkdown, rule by rule.                                            *)

\* lines 17-21: & first, then <, then >
EscapeAmp(s) ==
  LET M(t, i) == IF t[i] = "&" THEN i ELSE 0
      R(t, i, e) == <<"&", "a", "m", "p", ";">>
  IN ReplaceAll(s, M, R)
EscapeLt(s) ==
  LET M(t, i) == IF t[i] = "<" THEN i ELSE 0
      R(t, i, e) == <<"&", "l", "t", ";">>
  IN ReplaceAll(s, M, R)
EscapeGt(s) ==
  LET M(t, i) == IF t[i] = ">" THEN i ELSE 0
      R(t, i, e) == <<"&", "g", "t", ";">>
  IN ReplaceAll(s, M, R)
\* variant: & escaped last, so the & of &lt; and &gt; is escaped again
EscapeHtmlAmpLast(s) == Then(Then(EscapeLt(s), EscapeGt), EscapeAmp)
EscapeHtml(s) == Then(Then(EscapeAmp(s), EscapeLt), EscapeGt)

\* line 24: the regex  FENCE(\w*)\n([\s\S]*?)FENCE  with the g flag, FENCE being
\* three grave accents.  \w* is greedy and what it gives back
\* is followed by a word character, never by \n, so the language tag is the
\* whole word run; the lazy body stops at the first closing fence.
Fence == <<Backtick, Backtick, Backtick>>
FenceLangEnd(s, i) == RunEnd(s, i + 3, IsWordChar)
FenceClose(s, i) ==
  LET k == FenceLangEnd(s, i)
  IN IF At(s, i, Fence) /\ k + 1 <= Len(s) /\ s[k + 1] = "\n"
     THEN FirstAt(s, k + 2, Fence) ELSE 0
FenceMatchEnd(s, i) ==
  LET p == FenceClose(s, i) IN IF p = 0 THEN 0 ELSE p + 2
\* line 25: the callback's template, with code.trim()
FenceRepl(s, i, e) ==
  LET k == FenceLangEnd(s, i)
      lang == SubSeq(s, i + 3, k)
      body == SubSeq(s, k + 2, e - 3)
  IN <<"<", "p", "r", "e", " ", "c", "l", "a", "s", "s", "=", "\"", "c", "o", "d", "e", "-", "b", "l", "o", "c", "k", "\"", " ", "d", "a", "t", "a", "-", "l", "a", "n", "g", "=", "\"">> \o lang \o <<"\"", ">", "<", "c", "o", "d", "e", ">">>
       \o Trim(body) \o <<"<", "/", "c", "o", "d", "e", ">", "<", "/", "p", "r", "e", ">">>
CodeBlocks(s) == ReplaceAll(s, FenceMatchEnd, FenceRepl)

\* A delimited span  D([^c]+)D  where the delimiter D is made of the character
\* c: the greedy run of non-c characters is not empty and ends at the first c,
\* and what it gives back is followed by a non-c character, so the match is
\* decided without backtracking.  The last index of the match, or 0.
DelimMatchEnd(s, i, d) ==
  LET c == d[1]
      NotC(x) == x # c
      k == RunEnd(s, i + Len(d), NotC)
  IN IF At(s, i, d) /\ k >= i + Len(d) /\ At(s, k + 1, d)
     THEN k + Len(d) ELSE 0
\* the template  open $1 close  of a delimited span
DelimRepl(s, i, e, d, open, close) ==
  open \o SubSeq(s, i + Len(d), e - Len(d)) \o close

\* line 29: a run of non-grave characters between two grave accents, g flag
InlineCode(s) ==
  LET M(t, i) == DelimMatchEnd(t, i, <<Backtick>>)
      R(t, i, e) == DelimRepl(t, i, e, <<Backtick>>, <<"<", "c", "o", "d", "e", " ", "c", "l", "a", "s", "s", "=", "\"", "i", "n", "l", "i", "n", "e", "-", "c", "o", "d", "e", "\"", ">">>, <<"<", "/", "c", "o", "d", "e", ">">>)
  IN ReplaceAll(s, M, R)

\* The tail  \s+(.+)$  (m flag) of the line rules, entered at index i: \s+
\* takes the whole whitespace run (line terminators included) and gives
\* characters back until the character after it exists and is not a line
\* terminator; (.+) then runs to the end of that line.  The index where group 1
\* starts, 0 when the tail does not match.
LineTailGroupStart(s, i) ==
  LET w == RunEnd(s, i, IsSpace)
      RECURSIVE back(_)
      back(p) == \* p: the index after the whitespace \s+ keeps
        IF p <= i THEN 0
        ELSE IF p <= Len(s) /\ ~IsLineTerminator(s[p]) THEN p
        ELSE back(p - 1)
  IN back(w + 1)

\* A line rule  ^ prefix \s+(.+)$  (g and m flags): the last index of the match
\* that starts at index i with a prefix of length plen, or 0
LineRuleMatchEnd(s, i, plen) ==
  LET g == LineTailGroupStart(s, i + plen)
  IN IF g = 0 THEN 0 ELSE EndOfLine(s, g)
\* the template  open $1 close  of a line rule
LineRuleRepl(s, i, e, plen, open, close) ==
  open \o SubSeq(s, LineTailGroupStart(s, i + plen), e) \o close

\* lines 32-37: /^#{n}\s+(.+)$/gm for one level n
Hashes(n) == [k \in 1..n |-> "#"]
DigitChar(n) == <<"0", "1", "2", "3", "4", "5", "6", "7", "8", "9">>[n + 1]
HeadingOpen(n) == <<"<", "h", DigitChar(n), ">">>
HeadingClose(n) == <<"<", "/", "h", DigitChar(n), ">">>
Heading(s, n) ==
  LET M(t, i) == IF LineStart(t, i) /\ At(t, i, Hashes(n))
                 THEN LineRuleMatchEnd(t, i, n) ELSE 0
      R(t, i, e) == LineRuleRepl(t, i, e, n, HeadingOpen(n), HeadingClose(n))
  IN ReplaceAll(s, M, R)
Heading6(s) == Heading(s, 6)
Heading5(s) == Heading(s, 5)
Heading4(s) == Heading(s, 4)
Heading3(s) == Heading(s, 3)
Heading2(s) == Heading(s, 2)
Heading1(s) == Heading(s, 1)
\* variant: the rule for six hashes is missing
HeadersWithoutLevelSix(s) ==
  Then(Then(Then(Then(Heading5(s), Heading4), Heading3), Heading2), Heading1)
\* six hashes first, one hash last
Headers(s) ==
  Then(Then(Then(Then(Then(Heading6(s), Heading5), Heading4), Heading3), Heading2), Heading1)

\* line 40: /\*\*([^*]+)\*\*/g
BoldStar(s) ==
  LET M(t, i) == DelimMatchEnd(t, i, <<"*", "*">>)
      R(t, i, e) == DelimRepl(t, i, e, <<"*", "*">>, <<"<", "s", "t", "r", "o", "n", "g", ">">>, <<"<", "/", "s", "t", "r", "o", "n", "g", ">">>)
  IN ReplaceAll(s, M, R)
\* line 41: /__([^_]+)__/g
BoldUnderscore(s) ==
  LET M(t, i) == DelimMatchEnd(t, i, <<"_", "_">>)
      R(t, i, e) == DelimRepl(t, i, e, <<"_", "_">>, <<"<", "s", "t", "r", "o", "n", "g", ">">>, <<"<", "/", "s", "t", "r", "o", "n", "g", ">">>)
  IN ReplaceAll(s, M, R)
Bold(s) == Then(BoldStar(s), BoldUnderscore)

\* line 44: /\*([^*]+)\*/g
ItalicStar(s) ==
  LET M(t, i) == DelimMatchEnd(t, i, <<"*">>)
      R(t, i, e) == DelimRepl(t, i, e, <<"*">>, <<"<", "e", "m", ">">>, <<"<", "/", "e", "m", ">">>)
  IN ReplaceAll(s, M, R)
\* line 45: /_([^_]+)_/g
ItalicUnderscore(s) ==
  LET M(t, i) == DelimMatchEnd(t, i, <<"_">>)
      R(t, i, e) == DelimRepl(t, i, e, <<"_">>, <<"<", "e", "m", ">">>, <<"<", "/", "e", "m", ">">>)
  IN ReplaceAll(s, M, R)
Italic(s) == Then(ItalicStar(s), ItalicUnderscore)

\* line 48: /~~([^~]+)~~/g
Strikethrough(s) ==
  LET M(t, i) == DelimMatchEnd(t, i, <<"~", "~">>)
      R(t, i, e) == DelimRepl(t, i, e, <<"~", "~">>, <<"<", "d", "e", "l", ">">>, <<"<", "/", "d", "e", "l", ">">>)
  IN ReplaceAll(s, M, R)

\* The shape  \[(label)\]\(([^)]+)\)  shared by links and images, entered at
\* the index i of the bracket.  The label run [^\]] and the url run [^)] are
\* greedy, each ends at its first closing character, and what either gives
\* back is followed by a character that is not the closing one.  minLabel is 1
\* for [^\]]+ and 0 for [^\]]*.
NotCloseBracket(c) == c # "]"
NotCloseParen(c) == c # ")"
BracketLabelEnd(s, i) == RunEnd(s, i + 1, NotCloseBracket)
BracketParenMatchEnd(s, i, minLabel) ==
  LET k == BracketLabelEnd(s, i)
      u == RunEnd(s, k + 3, NotCloseParen)
  IN IF /\ i <= Len(s) /\ s[i] = "["
        /\ k - i >= minLabel
        /\ At(s, k + 1, <<"]", "(">>)
        /\ u >= k + 3
        /\ u + 1 <= Len(s) /\ s[u + 1] = ")"
     THEN u + 1 ELSE 0

\* line 51: /\[([^\]]+)\]\(([^)]+)\)/g
Links(s) ==
  LET M(t, i) == BracketParenMatchEnd(t, i, 1)
      R(t, i, e) ==
        LET k == BracketLabelEnd(t, i)
        IN <<"<", "a", " ", "h", "r", "e", "f", "=", "\"">> \o SubSeq(t, k + 3, e - 1)
             \o <<"\"", " ", "t", "a", "r", "g", "e", "t", "=", "\"", "_", "b", "l", "a", "n", "k", "\"", " ", "r", "e", "l", "=", "\"", "n", "o", "o", "p", "e", "n", "e", "r", " ", "n", "o", "r", "e", "f", "e", "r", "r", "e", "r", "\"", ">">>
             \o SubSeq(t, i + 1, k) \o <<"<", "/", "a", ">">>
  IN ReplaceAll(s, M, R)

\* line 54: /!\[([^\]]*)\]\(([^)]+)\)/g
Images(s) ==
  LET M(t, i) == IF t[i] = "!" THEN BracketParenMatchEnd(t, i + 1, 0) ELSE 0
      R(t, i, e) ==
        LET k == BracketLabelEnd(t, i + 1)
        IN <<"<", "i", "m", "g", " ", "s", "r", "c", "=", "\"">> \o SubSeq(t, k + 3, e - 1) \o <<"\"", " ", "a", "l", "t", "=", "\"">>
             \o SubSeq(t, i + 2, k) \o <<"\"", " ", "c", "l", "a", "s", "s", "=", "\"", "m", "a", "r", "k", "d", "o", "w", "n", "-", "i", "m", "a", "g", "e", "\"", " ", "/", ">">>
  IN ReplaceAll(s, M, R)

\* line 57: /^>\s+(.+)$/gm
Blockquotes(s) ==
  LET M(t, i) == IF LineStart(t, i) /\ t[i] = ">"
                 THEN LineRuleMatchEnd(t, i, 1) ELSE 0
      R(t, i, e) == LineRuleRepl(t, i, e, 1, <<"<", "b", "l", "o", "c", "k", "q", "u", "o", "t", "e", ">">>, <<"<", "/", "b", "l", "o", "c", "k", "q", "u", "o", "t", "e", ">">>)
  IN ReplaceAll(s, M, R)

\* line 60: /^[-*_]{3,}$/gm.  The run is greedy and what it gives back is
\* followed by one of its own characters, never by the end of the line.
IsRuleChar(c) == c \in {"-", "*", "_"}
HorizontalRules(s) ==
  LET M(t, i) ==
        LET k == RunEnd(t, i, IsRuleChar)
        IN IF LineStart(t, i) /\ k - i + 1 >= 3 /\ LineEndAfter(t, k)
           THEN k ELSE 0
      R(t, i, e) == <<"<", "h", "r", " ", "/", ">">>
  IN ReplaceAll(s, M, R)

\* line 63: /^[\-\*]\s+(.+)$/gm
ListItems(s) ==
  LET M(t, i) == IF LineStart(t, i) /\ t[i] \in {"-", "*"}
                 THEN LineRuleMatchEnd(t, i, 1) ELSE 0
      R(t, i, e) == LineRuleRepl(t, i, e, 1, <<"<", "l", "i", ">">>, <<"<", "/", "l", "i", ">">>)
  IN ReplaceAll(s, M, R)

\* line 64: /(<li>.*<\/li>\n?)+/g.  One iteration entered at index i: the greedy
\* .* runs to the end of the line and backtracks to the last </li> of the
\* line, then \n? takes the line terminator when there is one.  The last index
\* of the iteration, or 0.
LiOpen == <<"<", "l", "i", ">">>
LiClose == <<"<", "/", "l", "i", ">">>
ListItemRunStep(s, i) ==
  LET q == IF At(s, i, LiOpen) THEN LastAt(s, i + 4, EndOfLine(s, i), LiClose) ELSE 0
  IN IF q = 0 THEN 0
     ELSE IF q + 5 <= Len(s) /\ s[q + 5] = "\n" THEN q + 5 ELSE q + 4
\* the greedy + repeats the iteration for as long as it matches
ListItemRunEnd(s, i) ==
  LET RECURSIVE go(_)
      go(e) == \* e: the last index matched so far
        LET f == ListItemRunStep(s, e + 1) IN IF f = 0 THEN e ELSE go(f)
      first == ListItemRunStep(s, i)
  IN IF first = 0 THEN 0 ELSE go(first)
\* the template <ul>$&</ul>
WrapUnorderedLists(s) ==
  LET R(t, i, e) == <<"<", "u", "l", ">">> \o SubSeq(t, i, e) \o <<"<", "/", "u", "l", ">">>
  IN ReplaceAll(s, ListItemRunEnd, R)

\* line 67: /^\d+\.\s+(.+)$/gm.  \d+ is greedy and what it gives back is
\* followed by a digit, never by the dot.
OrderedPrefixLen(s, i) ==
  LET k == RunEnd(s, i, IsDigit)
  IN IF k >= i /\ k + 1 <= Len(s) /\ s[k + 1] = "." THEN k + 1 - i + 1 ELSE 0
OrderedListItems(s) ==
  LET M(t, i) == IF LineStart(t, i) /\ OrderedPrefixLen(t, i) > 0
                 THEN LineRuleMatchEnd(t, i, OrderedPrefixLen(t, i)) ELSE 0
      R(t, i, e) == LineRuleRepl(t, i, e, OrderedPrefixLen(t, i), <<"<", "l", "i", ">">>, <<"<", "/", "l", "i", ">">>)
  IN ReplaceAll(s, M, R)

\* The tail  \s+(.+)<\/li>  of the task rules, entered at index i: \s+ takes
\* the whole whitespace run and gives characters back until (.+), greedy on
\* one line, can end before a </li> of that line; (.+) ends before the last
\* such </li>.  <<start of group 1, index of that </li>>>, <<0, 0>> when the
\* tail does not match.  ci: the i flag.
TaskTail(s, i, ci) ==
  LET w == RunEnd(s, i, IsSpace)
      Close(p) == \* the greatest q > p with </li> at q on the line of p
        LET Hit(k) == IF ci THEN AtIgnoreCase(s, k, LiClose) ELSE At(s, k, LiClose)
            r == LastIndex(p + 1, EndOfLine(s, p) - 4, Hit)
        IN IF r <= p THEN 0 ELSE r
      RECURSIVE back(_)
      back(p) ==
        IF p <= i THEN <<0, 0>>
        ELSE IF p <= Len(s) /\ ~IsLineTerminator(s[p]) /\ Close(p) # 0
             THEN <<p, Close(p)>>
        ELSE back(p - 1)
  IN back(w + 1)

\* line 70: /<li>\[\s\]\s+(.+)<\/li>/g
UncheckedTasks(s) ==
  LET Opens(t, i) == At(t, i, <<"<", "l", "i", ">", "[">>) /\ i + 6 <= Len(t)
                      /\ IsSpace(t[i + 5]) /\ t[i + 6] = "]"
      M(t, i) == IF Opens(t, i) /\ TaskTail(t, i + 7, FALSE)[1] # 0
                 THEN TaskTail(t, i + 7, FALSE)[2] + 4 ELSE 0
      R(t, i, e) ==
        <<"<", "l", "i", " ", "c", "l", "a", "s", "s", "=", "\"", "t", "a", "s", "k", "-", "i", "t", "e", "m", "\"", ">", "<", "i", "n", "p", "u", "t", " ", "t", "y", "p", "e", "=", "\"", "c", "h", "e", "c", "k", "b", "o", "x", "\"", " ", "d", "i", "s", "a", "b", "l", "e", "d", " ", "/", ">", " ">>
          \o SubSeq(t, TaskTail(t, i + 7, FALSE)[1], e - 5) \o <<"<", "/", "l", "i", ">">>
  IN ReplaceAll(s, M, R)

\* line 71: /<li>\[x\]\s+(.+)<\/li>/gi
CheckedTasks(s) ==
  LET Opens(t, i) == AtIgnoreCase(t, i, <<"<", "l", "i", ">", "[", "x", "]">>)
      M(t, i) == IF Opens(t, i) /\ TaskTail(t, i + 7, TRUE)[1] # 0
                 THEN TaskTail(t, i + 7, TRUE)[2] + 4 ELSE 0
      R(t, i, e) ==
        <<"<", "l", "i", " ", "c", "l", "a", "s", "s", "=", "\"", "t", "a", "s", "k", "-", "i", "t", "e", "m", "\"", ">", "<", "i", "n", "p", "u", "t", " ", "t", "y", "p", "e", "=", "\"", "c", "h", "e", "c", "k", "b", "o", "x", "\"", " ", "c", "h", "e", "c", "k", "e", "d", " ", "d", "i", "s", "a", "b", "l", "e", "d", " ", "/", ">", " ">>
          \o SubSeq(t, TaskTail(t, i + 7, TRUE)[1], e - 5) \o <<"<", "/", "l", "i", ">">>
  IN ReplaceAll(s, M, R)
TaskLists(s) == Then(UncheckedTasks(s), CheckedTasks)

\* A replace whose regex is a literal pattern: every occurrence of pat, found
\* left to right without overlap, becomes repl.
ReplaceLiteral(s, pat, repl) ==
  LET M(t, i) == IF At(t, i, pat) THEN i + Len(pat) - 1 ELSE 0
      R(t, i, e) == repl
  IN ReplaceAll(s, M, R)

\* lines 74-75: /\n\n/g, then /\n/g
ParagraphBreaks(s) == ReplaceLiteral(s, <<"\n", "\n">>, <<"<", "/", "p", ">", "<", "p", ">">>)
ForcedBreaks(s) == ReplaceLiteral(s, <<"\n">>, <<"<", "b", "r", " ", "/", ">">>)
LineBreaks(s) == Then(ParagraphBreaks(s), ForcedBreaks)

\* variant: html[0].startsWith('<'), which throws on the empty string
WrapParagraphIndexed(s) ==
  IF s = <<>> THEN TypeError
  ELSE IF s[1] # "<" THEN <<"<", "p", ">">> \o s \o <<"<", "/", "p", ">">> ELSE s
\* lines 78-80
WrapParagraph(s) == IF ~StartsWith(s, <<"<">>) THEN <<"<", "p", ">">> \o s \o <<"<", "/", "p", ">">> ELSE s

\* /<h[1-6]>/ and /<\/h[1-6]>/ at index i
HeadingOpenAt(s, i) == \E n \in 1..6 : At(s, i, HeadingOpen(n))
HeadingCloseAt(s, i) == \E n \in 1..6 : At(s, i, HeadingClose(n))

\* /<p>(X)/g with the template $1: a <p> just before X is dropped
DropOpenBefore(s, Follows(_, _)) ==
  LET M(t, i) == IF At(t, i, <<"<", "p", ">">>) /\ Follows(t, i + 3) THEN i + 2 ELSE 0
      R(t, i, e) == <<>>
  IN ReplaceAll(s, M, R)
\* /(X)<\/p>/g with the template $1, X of length xlen: a </p> just after X is
\* dropped.  The match starts at X, so the scan resumes after the </p>.
DropCloseAfter(s, Starts(_, _), xlen) ==
  LET M(t, i) == IF Starts(t, i) /\ At(t, i + xlen, <<"<", "/", "p", ">">>) THEN i + xlen + 3 ELSE 0
      R(t, i, e) == SubSeq(t, i, i + xlen - 1)
  IN ReplaceAll(s, M, R)

\* lines 83-92, one operator for each statement
UlOpenAt(s, i) == At(s, i, <<"<", "u", "l", ">">>)
UlCloseAt(s, i) == At(s, i, <<"<", "/", "u", "l", ">">>)
QuoteOpenAt(s, i) == At(s, i, <<"<", "b", "l", "o", "c", "k", "q", "u", "o", "t", "e", ">">>)
QuoteCloseAt(s, i) == At(s, i, <<"<", "/", "b", "l", "o", "c", "k", "q", "u", "o", "t", "e", ">">>)
PreOpenAt(s, i) == At(s, i, <<"<", "p", "r", "e">>)
PreCloseAt(s, i) == At(s, i, <<"<", "/", "p", "r", "e", ">">>)
RuleAt(s, i) == At(s, i, <<"<", "h", "r", " ", "/", ">">>)
\* variant: empty paragraphs are kept
KeepEmptyParagraphs(s) == s
DropEmptyParagraphs(s) == ReplaceLiteral(s, <<"<", "p", ">", "<", "/", "p", ">">>, <<>>)
UnwrapHeadingOpen(s) == DropOpenBefore(s, HeadingOpenAt)
UnwrapHeadingClose(s) == DropCloseAfter(s, HeadingCloseAt, 5)
UnwrapUlOpen(s) == DropOpenBefore(s, UlOpenAt)
UnwrapUlClose(s) == DropCloseAfter(s, UlCloseAt, 5)
UnwrapQuoteOpen(s) == DropOpenBefore(s, QuoteOpenAt)
UnwrapQuoteClose(s) == DropCloseAfter(s, QuoteCloseAt, 13)
UnwrapPreOpen(s) == DropOpenBefore(s, PreOpenAt)
UnwrapPreClose(s) == DropCloseAfter(s, PreCloseAt, 6)
UnwrapRuleOpen(s) == DropOpenBefore(s, RuleAt)
CleanUp(s) ==
  Then(Then(Then(Then(Then(Then(Then(Then(Then(
    DropEmptyParagraphs(s),
    UnwrapHeadingOpen), UnwrapHeadingClose),
    UnwrapUlOpen), UnwrapUlClose),
    UnwrapQuoteOpen), UnwrapQuoteClose),
    UnwrapPreOpen), UnwrapPreClose),
    UnwrapRuleOpen)

\* variant: the italic rules run before the bold rules
parseMarkdownItalicFirst(text, allow) ==
  LET Escape(s) == IF ~allow THEN EscapeHtml(s) ELSE s
  IN Then(Then(Then(Then(Then(Then(Then(Then(Then(Then(Then(Then(Then(Then(
       Then(Then(Then(
       Then(text, Escape),
       CodeBlocks), InlineCode), Headers),
       Italic), Bold), Strikethrough),
       Links), Images), Blockquotes), HorizontalRules),
       ListItems), WrapUnorderedLists), OrderedListItems), TaskLists),
       LineBreaks), WrapParagraph), CleanUp)

\* lines 14-71: the statements of parseMarkdown before the paragraph folding,
\* in their order
MarkUp(text, allow) ==
  LET Escape(s) == IF ~allow THEN EscapeHtml(s) ELSE s
  IN Then(Then(Then(Then(Then(Then(Then(Then(Then(Then(Then(Then(Then(Then(
       Then(text, Escape),
       CodeBlocks), InlineCode), Headers),
       Bold), Italic), Strikethrough),
       Links), Images), Blockquotes), HorizontalRules),
       ListItems), WrapUnorderedLists), OrderedListItems), TaskLists)

\* lines 13-95: the statements of parseMarkdown in their order
parseMarkdown(text, allow) ==
  Then(Then(Then(MarkUp(text, allow), LineBreaks), WrapParagraph), CleanUp)

----------------------------------------------------------------------------
(* highlightCode.                                                          *)

\* lines 99-103: the keyword table, an object literal with three own
\* properties
JavaScriptKeywords ==
  << <<"c", "o", "n", "s", "t">>,
     <<"l", "e", "t">>,
     <<"v", "a", "r">>,
     <<"f", "u", "n", "c", "t", "i", "o", "n">>,
     <<"r", "e", "t", "u", "r", "n">>,
     <<"i", "f">>,
     <<"e", "l", "s", "e">>,
     <<"f", "o", "r">>,
     <<"w", "h", "i", "l", "e">>,
     <<"c", "l", "a", "s", "s">>,
     <<"i", "m", "p", "o", "r", "t">>,
     <<"e", "x", "p", "o", "r", "t">>,
     <<"f", "r", "o", "m">>,
     <<"a", "s", "y", "n", "c">>,
     <<"a", "w", "a", "i", "t">>,
     <<"t", "r", "y">>,
     <<"c", "a", "t", "c", "h">>,
     <<"t", "h", "r", "o", "w">>,
     <<"n", "e", "w">>,
     <<"t", "h", "i", "s">> >>
TypeScriptKeywords ==
  << <<"c", "o", "n", "s", "t">>,
     <<"l", "e", "t">>,
     <<"v", "a", "r">>,
     <<"f", "u", "n", "c", "t", "i", "o", "n">>,
     <<"r", "e", "t", "u", "r", "n">>,
     <<"i", "f">>,
     <<"e", "l", "s", "e">>,
     <<"f", "o", "r">>,
     <<"w", "h", "i", "l", "e">>,
     <<"c", "l", "a", "s", "s">>,
     <<"i", "m", "p", "o", "r", "t">>,
     <<"e", "x", "p", "o", "r", "t">>,
     <<"f", "r", "o", "m">>,
     <<"a", "s", "y", "n", "c">>,
     <<"a", "w", "a", "i", "t">>,
     <<"t", "r", "y">>,
     <<"c", "a", "t", "c", "h">>,
     <<"t", "h", "r", "o", "w">>,
     <<"n", "e", "w">>,
     <<"t", "h", "i", "s">>,
     <<"i", "n", "t", "e", "r", "f", "a", "c", "e">>,
     <<"t", "y", "p", "e">>,
     <<"e", "n", "u", "m">>,
     <<"i", "m", "p", "l", "e", "m", "e", "n", "t", "s">>,
     <<"e", "x", "t", "e", "n", "d", "s">> >>
PythonKeywords ==
  << <<"d", "e", "f">>,
     <<"c", "l", "a", "s", "s">>,
     <<"r", "e", "t", "u", "r", "n">>,
     <<"i", "f">>,
     <<"e", "l", "i", "f">>,
     <<"e", "l", "s", "e">>,
     <<"f", "o", "r">>,
     <<"w", "h", "i", "l", "e">>,
     <<"i", "m", "p", "o", "r", "t">>,
     <<"f", "r", "o", "m">>,
     <<"t", "r", "y">>,
     <<"e", "x", "c", "e", "p", "t">>,
     <<"r", "a", "i", "s", "e">>,
     <<"w", "i", "t", "h">>,
     <<"a", "s">>,
     <<"l", "a", "m", "b", "d", "a">>,
     <<"y", "i", "e", "l", "d">>,
     <<"a", "s", "y", "n", "c">>,
     <<"a", "w", "a", "i", "t">> >>
keywords ==
  (<<"j", "a", "v", "a", "s", "c", "r", "i", "p", "t">> :> JavaScriptKeywords)
    @@ (<<"t", "y", "p", "e", "s", "c", "r", "i", "p", "t">> :> TypeScriptKeywords)
    @@ (<<"p", "y", "t", "h", "o", "n">> :> PythonKeywords)

\* What a property read keywords[name] finds when name is no own property:
\* the object literal inherits from Object.prototype, whose properties with an
\* all-lower-case name are constructor (a function) and __proto__ (an object).
\* Both are truthy and neither is an array.
InheritedProperties == {<<"c", "o", "n", "s", "t", "r", "u", "c", "t", "o", "r">>, <<"_", "_", "p", "r", "o", "t", "o", "_", "_">>}
NotAnArray == <<"[object]">>

\* line 105: keywords[language.toLowerCase()] || []
langKeywords(lang) ==
  LET name == toLowerCase(lang)
  IN IF name \in DOMAIN keywords THEN keywords[name]
     ELSE IF name \in InheritedProperties THEN NotAnArray
     ELSE <<>>

\* line 109: /(["'GRAVE])(?:(?!\1)[^\\]|\\.)*\1/g.  From the opening quote the
\* loop takes either one character that is neither the quote nor a backslash,
\* or a backslash and the character after it (not a line terminator); at any
\* index at most one of the two applies, so nothing is gained by backtracking
\* and the match ends at the first quote the loop stops at.
IsQuote(c) == c \in {"\"", "'", Backtick}
RECURSIVE StringLiteralScan(_, _, _)
StringLiteralScan(s, p, q) ==
  IF p > Len(s) THEN 0
  ELSE IF s[p] = q THEN p
  ELSE IF s[p] = "\\"
       THEN IF p + 1 <= Len(s) /\ ~IsLineTerminator(s[p + 1])
            THEN StringLiteralScan(s, p + 2, q) ELSE 0
  ELSE StringLiteralScan(s, p + 1, q)
StringLiteralEnd(s, i) == IF IsQuote(s[i]) THEN StringLiteralScan(s, i + 1, s[i]) ELSE 0
\* the template <span class="string">$&</span>
HighlightStrings(s) ==
  LET R(t, i, e) == <<"<", "s", "p", "a", "n", " ", "c", "l", "a", "s", "s", "=", "\"", "s", "t", "r", "i", "n", "g", "\"", ">">> \o SubSeq(t, i, e) \o <<"<", "/", "s", "p", "a", "n", ">">>
  IN ReplaceAll(s, StringLiteralEnd, R)

\* line 112: /(\/\/.*$|#.*$)/gm
LineCommentEnd(s, i) ==
  IF At(s, i, <<"/", "/">>) \/ s[i] = "#" THEN EndOfLine(s, i) ELSE 0
CommentRepl(s, i, e) == <<"<", "s", "p", "a", "n", " ", "c", "l", "a", "s", "s", "=", "\"", "c", "o", "m", "m", "e", "n", "t", "\"", ">">> \o SubSeq(s, i, e) \o <<"<", "/", "s", "p", "a", "n", ">">>
HighlightLineComments(s) == ReplaceAll(s, LineCommentEnd, CommentRepl)

\* line 113: /(\/\*[\s\S]*?\*\/)/g
BlockCommentEnd(s, i) ==
  LET p == IF At(s, i, <<"/", "*">>) THEN FirstAt(s, i + 2, <<"*", "/">>) ELSE 0
  IN IF p = 0 THEN 0 ELSE p + 1
HighlightBlockComments(s) == ReplaceAll(s, BlockCommentEnd, CommentRepl)

\* \b just after index a (a = 0: at the start of the input)
WordBoundaryAfter(s, a) ==
  LET Before == a >= 1 /\ a <= Len(s) /\ IsWordChar(s[a])
      After == a + 1 >= 1 /\ a + 1 <= Len(s) /\ IsWordChar(s[a + 1])
  IN Before # After

\* lines 117-120: new RegExp('\\b(' + keyword + ')\\b', 'g') for one keyword
WrapKeyword(s, keyword) ==
  LET M(t, i) == IF /\ At(t, i, keyword)
                    /\ WordBoundaryAfter(t, i - 1)
                    /\ WordBoundaryAfter(t, i + Len(keyword) - 1)
                 THEN i + Len(keyword) - 1 ELSE 0
      R(t, i, e) == <<"<", "s", "p", "a", "n", " ", "c", "l", "a", "s", "s", "=", "\"", "k", "e", "y", "w", "o", "r", "d", "\"", ">">> \o SubSeq(t, i, e) \o <<"<", "/", "s", "p", "a", "n", ">">>
  IN ReplaceAll(s, M, R)
\* line 116: forEach, in the order of the table
RECURSIVE HighlightKeywords(_, _)
HighlightKeywords(s, kws) ==
  IF kws = <<>> THEN s
  ELSE CHOOSE y \in {HighlightKeywords(x, Tail(kws)) : x \in {WrapKeyword(s, Head(kws))}} : TRUE

\* line 124: /\b(\d+\.?\d*)\b/g at index i.  With d the end of the digit run
\* that starts at i, the engine tries in this order: the digits, the dot and the
\* digits after it; the digits and the dot; the digits alone.  A try succeeds
\* when a word boundary follows it.  Fewer digits than the run end inside the
\* run or where the whole run ends, which adds nothing.
NumberEnd(s, i) ==
  LET d == RunEnd(s, i, IsDigit)
      dot == d + 1 <= Len(s) /\ s[d + 1] = "."
      f == RunEnd(s, d + 2, IsDigit)
  IN IF ~(IsDigit(s[i]) /\ WordBoundaryAfter(s, i - 1)) THEN 0
     ELSE IF dot /\ f >= d + 2 /\ WordBoundaryAfter(s, f) THEN f
     ELSE IF dot /\ WordBoundaryAfter(s, d + 1) THEN d + 1
     ELSE IF WordBoundaryAfter(s, d) THEN d
     ELSE 0
HighlightNumbers(s) ==
  LET R(t, i, e) == <<"<", "s", "p", "a", "n", " ", "c", "l", "a", "s", "s", "=", "\"", "n", "u", "m", "b", "e", "r", "\"", ">">> \o SubSeq(t, i, e) \o <<"<", "/", "s", "p", "a", "n", ">">>
  IN ReplaceAll(s, NumberEnd, R)

\* lines 98-127.  forEach is read off langKeywords after the strings and the
\* comments are wrapped; on a value that is no array the call throws.
highlightCode(source, lang) ==
  LET kws == langKeywords(lang)
      Keywords(s) == HighlightKeywords(s, kws)
  IN IF kws = NotAnArray THEN TypeError
     ELSE Then(Then(Then(Then(
            HighlightStrings(source),
            HighlightLineComments), HighlightBlockComments),
            Keywords), HighlightNumbers)

----------------------------------------------------------------------------
(* The components and their inputs.                                        *)

\* the concatenations of at most n tokens, each token a string
RECURSIVE TokenStrings(_, _)
TokenStrings(tokens, n) ==
  IF n = 0 THEN {<<>>}
  ELSE LET shorter == TokenStrings(tokens, n - 1)
       IN shorter \cup {t \o w : t \in shorter, w \in tokens}

MdIdle == content = <<>> /\ allowHtml = FALSE /\ html = <<>> /\ mdPc = "idle"
HlIdle ==
  /\ code = <<>> /\ language = <<>> /\ highlighted = <<>> /\ hlPc = "idle"
  /\ showLineNumbers = TRUE /\ rows = <<>>

\* a Markdown element is given its props
MdInit(texts, flags) ==
  /\ content \in texts
  /\ allowHtml \in flags
  /\ html = <<>>
  /\ mdPc = "props"
\* a CodeBlock element is given its props
HlInitWith(codes, languages, flags) ==
  /\ code \in codes
  /\ language \in languages
  /\ showLineNumbers \in flags
  /\ highlighted = <<>>
  /\ rows = <<>>
  /\ hlPc = "props"
\* line 141: showLineNumbers = true when the prop is not given
HlInit(codes, languages) == HlInitWith(codes, languages, {TRUE})

\* lines 129-130: Markdown computes the string it injects
Render ==
  /\ mdPc = "props"
  /\ html' = parseMarkdown(content, allowHtml)
  /\ mdPc' = "rendered"
  /\ UNCHANGED <<content, allowHtml, hlVars, hookVars>>

\* line 144: String.prototype.split on the newline
RECURSIVE split(_)
split(s) ==
  LET i == FirstAt(s, 1, <<"\n">>)
  IN IF i = 0 THEN <<s>> ELSE <<SubSeq(s, 1, i - 1)>> \o split(SubSeq(s, i + 1, Len(s)))

\* line 175: the cell of one line
Cell(line, lang) == IF lang = <<>> THEN line ELSE highlightCode(line, lang)

\* variant: the cells are the lines of the highlighted whole
HighlightWholeThenSplit ==
  /\ hlPc = "props"
  /\ highlighted' = IF language = <<>> THEN code ELSE highlightCode(code, language)
  /\ rows' = IF showLineNumbers THEN split(highlighted') ELSE <<>>
  /\ hlPc' = "rendered"
  /\ UNCHANGED <<code, language, showLineNumbers, mdVars, hookVars>>

\* lines 141-186: CodeBlock renders.  It highlights the whole code when it has
\* a language (line 143) and, when it shows line numbers, each line of the
\* code on its own (lines 169-179); without line numbers it shows the
\* highlighted whole (line 181) and no table.
Highlight ==
  /\ hlPc = "props"
  /\ highlighted' = IF language = <<>> THEN code ELSE highlightCode(code, language)
  /\ rows' = IF showLineNumbers
             THEN LET lines == split(code)
                  IN [i \in 1..Len(lines) |-> Cell(lines[i], language)]
             ELSE <<>>
  /\ hlPc' = "rendered"
  /\ UNCHANGED <<code, language, showLineNumbers, mdVars, hookVars>>

\* a JavaScript string of the model's characters
IsString(x) == x \in Seq(Char)

----------------------------------------------------------------------------
(* useOptimisticUpdate (src/src/hooks/advanced.ts, lines 8-40).            *)

MaxUpdates == 2
OuValues == {0, 1, 2}
Null == <<"null">>
UpdateCalls == 1..MaxUpdates
ErrorOf(c) == <<"Error", c>>

\* lines 13-16: the state after the first render, for some initialValue
OuInit ==
  /\ ouValue \in OuValues
  /\ ouIsUpdating = FALSE
  /\ ouError = Null
  /\ ouPrevious = ouValue
  /\ ouSeen = ouValue
  /\ ouCalls = [c \in UpdateCalls |-> [pc |-> "idle", current |-> ouValue]]
  /\ ouRollbacks = <<>>
\* the hook as constructed with initialValue 0, for the families that leave it
\* alone
OuIdle ==
  /\ ouValue = 0 /\ ouIsUpdating = FALSE /\ ouError = Null /\ ouPrevious = 0 /\ ouSeen = 0
  /\ ouCalls = [c \in UpdateCalls |-> [pc |-> "idle", current |-> 0]]
  /\ ouRollbacks = <<>>

\* line 37: a render makes a new update callback that closes over the value
\* of that render
OuRender ==
  /\ ouSeen # ouValue
  /\ ouSeen' = ouValue
  /\ UNCHANGED <<ouValue, ouIsUpdating, ouError, ouPrevious, ouCalls, ouRollbacks>>
  /\ UNCHANGED <<mdVars, hlVars, icVars, aeVars, llVars, muVars, fsVars, lbVars, epVars>>

\* lines 18-25: update(newValue) up to the await.  The callback is the one of
\* the last render, so value in line 19 is the value of that render.
OuUpdate(c, newValue) ==
  /\ ouCalls[c].pc = "idle"
  /\ \A b \in UpdateCalls : b < c => ouCalls[b].pc # "idle"
  /\ ouPrevious' = ouSeen
  /\ ouValue' = newValue
  /\ ouIsUpdating' = TRUE
  /\ ouError' = Null
  /\ ouCalls' = [ouCalls EXCEPT ![c] = [pc |-> "pending", current |-> ouValue]]
  /\ UNCHANGED <<ouSeen, ouRollbacks>>
  /\ UNCHANGED <<mdVars, hlVars, icVars, aeVars, llVars, muVars, fsVars, lbVars, epVars>>

\* lines 26-27 and 35: updateFn resolved with result
OuResolve(c, result) ==
  /\ ouCalls[c].pc = "pending"
  /\ ouValue' = result
  /\ ouIsUpdating' = FALSE
  /\ ouCalls' = [ouCalls EXCEPT ![c].pc = "resolved"]
  /\ UNCHANGED <<ouError, ouPrevious, ouSeen, ouRollbacks>>
  /\ UNCHANGED <<mdVars, hlVars, icVars, aeVars, llVars, muVars, fsVars, lbVars, epVars>>

\* lines 28-35: updateFn rejected
OuReject(c) ==
  /\ ouCalls[c].pc = "pending"
  /\ ouError' = ErrorOf(c)
  /\ ouValue' = ouPrevious
  /\ ouRollbacks' = Append(ouRollbacks,
                           [call |-> c, error |-> ErrorOf(c), previousValue |-> ouPrevious,
                            restored |-> ouPrevious])
  /\ ouIsUpdating' = FALSE
  /\ ouCalls' = [ouCalls EXCEPT ![c].pc = "rejected"]
  /\ UNCHANGED <<ouPrevious, ouSeen>>
  /\ UNCHANGED <<mdVars, hlVars, icVars, aeVars, llVars, muVars, fsVars, lbVars, epVars>>

OuNext ==
  \/ OuRender
  \/ \E c \in UpdateCalls, v \in OuValues : OuUpdate(c, v)
  \/ \E c \in UpdateCalls, r \in OuValues : OuResolve(c, r)
  \/ \E c \in UpdateCalls : OuReject(c)

----------------------------------------------------------------------------
(* useInfiniteCursor (src/src/hooks/advanced.ts, lines 43-90).  The server *)
(* holds pages 1..MaxPages; the data of page k is the one item k, the      *)
(* cursor of page k is k, and fetchFn without a cursor gives page 1.       *)

MaxPages == 3
MaxFetches == 3
NoCursor == <<>>
FetchCalls == 1..MaxFetches
\* fetchFn(cursor) resolves with { data, nextCursor }
PageOf(cursor) == IF cursor = NoCursor THEN 1 ELSE cursor[1]
DataOf(cursor) == <<PageOf(cursor)>>
NextCursorOf(cursor) == IF PageOf(cursor) < MaxPages THEN <<PageOf(cursor) + 1>> ELSE NoCursor

\* lines 47-52, with no initialCursor
IcIdle ==
  /\ icItems = <<>>
  /\ icCursor = NoCursor
  /\ icHasMore = TRUE
  /\ icIsLoading = FALSE
  /\ icIsLoadingMore = FALSE
  /\ icError = Null
  /\ icSeen = [cursor |-> NoCursor, hasMore |-> TRUE, isLoadingMore |-> FALSE]
  /\ icFetches = [f \in FetchCalls |-> [pc |-> "idle", cursor |-> NoCursor, refreshes |-> 0]]
  /\ icRefreshes = 0
  /\ icAppends = <<>>

\* line 68: a render makes a new loadMore callback that closes over cursor,
\* hasMore and isLoadingMore of that render
IcRender ==
  /\ icSeen # [cursor |-> icCursor, hasMore |-> icHasMore, isLoadingMore |-> icIsLoadingMore]
  /\ icSeen' = [cursor |-> icCursor, hasMore |-> icHasMore, isLoadingMore |-> icIsLoadingMore]
  /\ UNCHANGED <<icItems, icCursor, icHasMore, icIsLoading, icIsLoadingMore, icError,
                 icFetches, icRefreshes, icAppends>>
  /\ UNCHANGED <<mdVars, hlVars, ouVars, aeVars, llVars, muVars, fsVars, lbVars, epVars>>

\* lines 54-59: loadMore() up to the await; the guard of line 55 reads the
\* values of the render the callback was made in
IcLoadMore(f) ==
  /\ icFetches[f].pc = "idle"
  /\ \A g \in FetchCalls : g < f => icFetches[g].pc # "idle"
  /\ ~(icSeen.isLoadingMore \/ ~icSeen.hasMore)
  /\ icIsLoadingMore' = TRUE
  /\ icFetches' = [icFetches EXCEPT ![f] = [pc |-> "more", cursor |-> icSeen.cursor,
                                            refreshes |-> icRefreshes]]
  /\ UNCHANGED <<icItems, icCursor, icHasMore, icIsLoading, icError, icSeen, icRefreshes,
                 icAppends>>
  /\ UNCHANGED <<mdVars, hlVars, ouVars, aeVars, llVars, muVars, fsVars, lbVars, epVars>>

\* lines 60-62 and 66: the fetch of a loadMore call resolved
IcLoadMoreResolve(f) ==
  /\ icFetches[f].pc = "more"
  /\ icItems' = icItems \o DataOf(icFetches[f].cursor)
  /\ icCursor' = NextCursorOf(icFetches[f].cursor)
  /\ icHasMore' = (NextCursorOf(icFetches[f].cursor) # NoCursor)
  /\ icIsLoadingMore' = FALSE
  /\ icAppends' = Append(icAppends, [page |-> PageOf(icFetches[f].cursor),
                                     refreshesAtCall |-> icFetches[f].refreshes,
                                     refreshesAtAppend |-> icRefreshes])
  /\ icFetches' = [icFetches EXCEPT ![f].pc = "done"]
  /\ UNCHANGED <<icIsLoading, icError, icSeen, icRefreshes>>
  /\ UNCHANGED <<mdVars, hlVars, ouVars, aeVars, llVars, muVars, fsVars, lbVars, epVars>>

\* lines 63-66: the fetch of a loadMore call rejected
IcLoadMoreReject(f) ==
  /\ icFetches[f].pc = "more"
  /\ icError' = ErrorOf(f)
  /\ icIsLoadingMore' = FALSE
  /\ icFetches' = [icFetches EXCEPT ![f].pc = "done"]
  /\ UNCHANGED <<icItems, icCursor, icHasMore, icIsLoading, icSeen, icRefreshes, icAppends>>
  /\ UNCHANGED <<mdVars, hlVars, ouVars, aeVars, llVars, muVars, fsVars, lbVars, epVars>>

\* lines 70-74: refresh() up to the await (called by the effect of lines 85-87
\* or by the owner of the hook)
IcRefresh(f) ==
  /\ icFetches[f].pc = "idle"
  /\ \A g \in FetchCalls : g < f => icFetches[g].pc # "idle"
  /\ icIsLoading' = TRUE
  /\ icError' = Null
  /\ icRefreshes' = icRefreshes + 1
  /\ icFetches' = [icFetches EXCEPT ![f] = [pc |-> "refresh", cursor |-> NoCursor,
                                            refreshes |-> icRefreshes + 1]]
  /\ UNCHANGED <<icItems, icCursor, icHasMore, icIsLoadingMore, icSeen, icAppends>>
  /\ UNCHANGED <<mdVars, hlVars, ouVars, aeVars, llVars, muVars, fsVars, lbVars, epVars>>

\* lines 75-77 and 81: the fetch of a refresh call resolved
IcRefreshResolve(f) ==
  /\ icFetches[f].pc = "refresh"
  /\ icItems' = DataOf(NoCursor)
  /\ icCursor' = NextCursorOf(NoCursor)
  /\ icHasMore' = (NextCursorOf(NoCursor) # NoCursor)
  /\ icIsLoading' = FALSE
  /\ icFetches' = [icFetches EXCEPT ![f].pc = "done"]
  /\ UNCHANGED <<icIsLoadingMore, icError, icSeen, icRefreshes, icAppends>>
  /\ UNCHANGED <<mdVars, hlVars, ouVars, aeVars, llVars, muVars, fsVars, lbVars, epVars>>

\* lines 78-81: the fetch of a refresh call rejected
IcRefreshReject(f) ==
  /\ icFetches[f].pc = "refresh"
  /\ icError' = ErrorOf(f)
  /\ icIsLoading' = FALSE
  /\ icFetches' = [icFetches EXCEPT ![f].pc = "done"]
  /\ UNCHANGED <<icItems, icCursor, icHasMore, icIsLoadingMore, icSeen, icRefreshes, icAppends>>
  /\ UNCHANGED <<mdVars, hlVars, ouVars, aeVars, llVars, muVars, fsVars, lbVars, epVars>>

IcNext ==
  \/ IcRender
  \/ \E f \in FetchCalls : IcLoadMore(f)
  \/ \E f \in FetchCalls : IcLoadMoreResolve(f)
  \/ \E f \in FetchCalls : IcLoadMoreReject(f)
  \/ \E f \in FetchCalls : IcRefresh(f)
  \/ \E f \in FetchCalls : IcRefreshResolve(f)
  \/ \E f \in FetchCalls : IcRefreshReject(f)

----------------------------------------------------------------------------
(* useAsyncEffect (hooks/advanced.ts).  Every run of the effect has its own *)
(* variables cleanup and cancelled and its own promise; the function React  *)
(* keeps as the run's teardown closes over them.  A run's record counts the *)
(* invocations of the function its promise resolved to.                     *)

MaxRuns == 3

EffectRuns == 1..MaxRuns

\* What effect() can resolve to: a cleanup function, or nothing.
EffectResults == {"function", "undefined"}

AeIdle ==
  /\ aeRuns = [r \in EffectRuns |->
                 [pc |-> "idle", cleanup |-> "undefined", cancelled |-> FALSE,
                  invoked |-> 0]]
  /\ aeMounted = 0
  /\ aeUnmounted = FALSE

\* The function the effect returns: cancelled = true, and cleanup() when the
\* variable holds a function by then.
Teardown(runs, r) ==
  IF r = 0 THEN runs
  ELSE [runs EXCEPT
          ![r].cancelled = TRUE,
          ![r].invoked = IF runs[r].cleanup = "function" THEN @ + 1 ELSE @]

\* React runs the effect: on mount, and again when a dependency has changed,
\* after the teardown of the run before.  The run starts effect() and returns.
AeRun(r) ==
  /\ ~aeUnmounted
  /\ r = aeMounted + 1
  /\ aeRuns' = [Teardown(aeRuns, aeMounted) EXCEPT ![r].pc = "pending"]
  /\ aeMounted' = r
  /\ UNCHANGED aeUnmounted
  /\ UNCHANGED <<mdVars, hlVars, ouVars, icVars, llVars, muVars, fsVars, lbVars, epVars>>

\* The promise of effect() resolves: the continuation assigns cleanup.
AeResolve(r, result) ==
  /\ aeRuns[r].pc = "pending"
  /\ aeRuns' = [aeRuns EXCEPT ![r].pc = "resolved", ![r].cleanup = result]
  /\ UNCHANGED <<aeMounted, aeUnmounted>>
  /\ UNCHANGED <<mdVars, hlVars, ouVars, icVars, llVars, muVars, fsVars, lbVars, epVars>>

\* The promise of effect() rejects: the assignment never happens.
AeReject(r) ==
  /\ aeRuns[r].pc = "pending"
  /\ aeRuns' = [aeRuns EXCEPT ![r].pc = "rejected"]
  /\ UNCHANGED <<aeMounted, aeUnmounted>>
  /\ UNCHANGED <<mdVars, hlVars, ouVars, icVars, llVars, muVars, fsVars, lbVars, epVars>>

\* The component unmounts: React calls the teardown of the mounted run.
AeUnmount ==
  /\ ~aeUnmounted
  /\ aeMounted # 0
  /\ aeRuns' = Teardown(aeRuns, aeMounted)
  /\ aeMounted' = 0
  /\ aeUnmounted' = TRUE
  /\ UNCHANGED <<mdVars, hlVars, ouVars, icVars, llVars, muVars, fsVars, lbVars, epVars>>

AeNext ==
  \/ \E r \in EffectRuns : AeRun(r)
  \/ \E r \in EffectRuns, result \in EffectResults : AeResolve(r, result)
  \/ \E r \in EffectRuns : AeReject(r)
  \/ AeUnmount

----------------------------------------------------------------------------
(* useLazyLoad (hooks/advanced.ts).  loadedRef is a ref, read when load     *)
(* runs; data is read from the closure of the render that made the          *)
(* callback.  The result of the loadFn invocation of call c is              *)
(* LoadResult(c), its rejection ErrorOf(c).                                 *)

MaxLoads == 3

LoadCalls == 1..MaxLoads

LoadResult(c) == <<"data", c>>

LlIdle ==
  /\ llData = Null
  /\ llIsLoading = FALSE
  /\ llError = Null
  /\ llLoaded = FALSE
  /\ llSeen = Null
  /\ llCalls = [c \in LoadCalls |->
                  [pc |-> "idle", returned |-> Null, unfailed |-> {}]]

\* A render: the load callback is made again, its dependency data included.
LlRender ==
  /\ llSeen # llData
  /\ llSeen' = llData
  /\ UNCHANGED <<llData, llIsLoading, llError, llLoaded, llCalls>>
  /\ UNCHANGED <<mdVars, hlVars, ouVars, icVars, aeVars, muVars, fsVars, lbVars, epVars>>

\* load(), up to the await: return data when loadedRef.current, otherwise
\* setIsLoading(true) and invoke loadFn.
LlLoad(c) ==
  /\ llCalls[c].pc = "idle"
  /\ \A b \in LoadCalls : b < c => llCalls[b].pc # "idle"
  /\ IF llLoaded
       THEN /\ llCalls' = [llCalls EXCEPT ![c].pc = "returned",
                                          ![c].returned = llSeen]
            /\ UNCHANGED llIsLoading
       ELSE /\ llCalls' =
                 [llCalls EXCEPT
                    ![c].pc = "pending",
                    ![c].unfailed =
                      {b \in LoadCalls : llCalls[b].pc \in {"pending", "resolved"}}]
            /\ llIsLoading' = TRUE
  /\ UNCHANGED <<llData, llError, llLoaded, llSeen>>
  /\ UNCHANGED <<mdVars, hlVars, ouVars, icVars, aeVars, muVars, fsVars, lbVars, epVars>>

\* loadFn's promise resolves: the rest of the try block, then finally.
LlResolve(c) ==
  /\ llCalls[c].pc = "pending"
  /\ llData' = LoadResult(c)
  /\ llLoaded' = TRUE
  /\ llIsLoading' = FALSE
  /\ llCalls' = [llCalls EXCEPT ![c].pc = "resolved",
                                ![c].returned = LoadResult(c)]
  /\ UNCHANGED <<llError, llSeen>>
  /\ UNCHANGED <<mdVars, hlVars, ouVars, icVars, aeVars, muVars, fsVars, lbVars, epVars>>

\* loadFn's promise rejects: the catch block, then finally.
LlReject(c) ==
  /\ llCalls[c].pc = "pending"
  /\ llError' = ErrorOf(c)
  /\ llIsLoading' = FALSE
  /\ llCalls' = [llCalls EXCEPT ![c].pc = "rejected"]
  /\ UNCHANGED <<llData, llLoaded, llSeen>>
  /\ UNCHANGED <<mdVars, hlVars, ouVars, icVars, aeVars, muVars, fsVars, lbVars, epVars>>

LlNext ==
  \/ LlRender
  \/ \E c \in LoadCalls : LlLoad(c)
  \/ \E c \in LoadCalls : LlResolve(c)
  \/ \E c \in LoadCalls : LlReject(c)

----------------------------------------------------------------------------
(* useMutation (hooks/advanced.ts).  mutate closes over mutationFn and      *)
(* options only, so a call behaves the same from whichever render it is     *)
(* made.  The result of call c is MutationResult(c), its rejection          *)
(* ErrorOf(c).                                                              *)

MaxMutations == 3

MutateCalls == 1..MaxMutations

MutationResult(c) == <<"result", c>>

MuIdle ==
  /\ muIsLoading = FALSE
  /\ muError = Null
  /\ muData = Null
  /\ muCalls = [c \in MutateCalls |-> "idle"]

\* mutate(input), up to the await.
MuMutate(c) ==
  /\ muCalls[c] = "idle"
  /\ \A b \in MutateCalls : b < c => muCalls[b] # "idle"
  /\ muIsLoading' = TRUE
  /\ muError' = Null
  /\ muCalls' = [muCalls EXCEPT ![c] = "pending"]
  /\ UNCHANGED muData
  /\ UNCHANGED <<mdVars, hlVars, ouVars, icVars, aeVars, llVars, fsVars, lbVars, epVars>>

\* mutationFn's promise resolves: the rest of the try block, then finally.
MuResolve(c) ==
  /\ muCalls[c] = "pending"
  /\ muData' = MutationResult(c)
  /\ muIsLoading' = FALSE
  /\ muCalls' = [muCalls EXCEPT ![c] = "resolved"]
  /\ UNCHANGED muError
  /\ UNCHANGED <<mdVars, hlVars, ouVars, icVars, aeVars, llVars, fsVars, lbVars, epVars>>

\* mutationFn's promise rejects: the catch block, then finally.
MuReject(c) ==
  /\ muCalls[c] = "pending"
  /\ muError' = ErrorOf(c)
  /\ muIsLoading' = FALSE
  /\ muCalls' = [muCalls EXCEPT ![c] = "rejected"]
  /\ UNCHANGED muData
  /\ UNCHANGED <<mdVars, hlVars, ouVars, icVars, aeVars, llVars, fsVars, lbVars, epVars>>

\* reset()
MuReset ==
  /\ <<muIsLoading, muError, muData>> # <<FALSE, Null, Null>>
  /\ muIsLoading' = FALSE
  /\ muError' = Null
  /\ muData' = Null
  /\ UNCHANGED muCalls
  /\ UNCHANGED <<mdVars, hlVars, ouVars, icVars, aeVars, llVars, fsVars, lbVars, epVars>>

MuNext ==
  \/ \E c \in MutateCalls : MuMutate(c)
  \/ \E c \in MutateCalls : MuResolve(c)
  \/ \E c \in MutateCalls : MuReject(c)
  \/ MuReset

----------------------------------------------------------------------------
(* useFormState (hooks/advanced.ts): a reducer over status and error, and   *)
(* the four dispatchers.  An action is a record of its type and, for ERROR, *)
(* its error string; error is Null in the other actions.                    *)

MaxDispatches == 3

\* The strings setError is called with, the empty string among them.
FormErrors == {<<>>, <<"e">>}

FormActions ==
  [type : {"SUBMIT", "SUCCESS", "RESET"}, error : {Null}]
    \cup [type : {"ERROR"}, error : FormErrors]

\* variant: SUBMIT keeps the error of the state before.
formReducerSubmitKeepsError(state, action) ==
  CASE action.type = "SUBMIT" -> [status |-> "submitting", error |-> state.error]
    [] action.type = "SUCCESS" -> [status |-> "success", error |-> Null]
    [] action.type = "ERROR" -> [status |-> "error", error |-> action.error]
    [] action.type = "RESET" -> [status |-> "idle", error |-> Null]
    [] OTHER -> state

formReducer(state, action) ==
  CASE action.type = "SUBMIT" -> [status |-> "submitting", error |-> Null]
    [] action.type = "SUCCESS" -> [status |-> "success", error |-> Null]
    [] action.type = "ERROR" -> [status |-> "error", error |-> action.error]
    [] action.type = "RESET" -> [status |-> "idle", error |-> Null]
    [] OTHER -> state

isIdle == fsState.status = "idle"
isSubmitting == fsState.status = "submitting"
isSuccess == fsState.status = "success"
isError == fsState.status = "error"

FsIdle ==
  /\ fsState = [status |-> "idle", error |-> Null]
  /\ fsLog = <<>>

dispatch(action) ==
  /\ Len(fsLog) < MaxDispatches
  /\ fsState' = formReducer(fsState, action)
  /\ fsLog' = Append(fsLog, action)
  /\ UNCHANGED <<mdVars, hlVars, ouVars, icVars, aeVars, llVars, muVars, lbVars, epVars>>

submit == dispatch([type |-> "SUBMIT", error |-> Null])

success == dispatch([type |-> "SUCCESS", error |-> Null])

setError(error) == dispatch([type |-> "ERROR", error |-> error])

reset == dispatch([type |-> "RESET", error |-> Null])

FsNext ==
  \/ submit
  \/ success
  \/ \E error \in FormErrors : setError(error)
  \/ reset

----------------------------------------------------------------------------
(* ImageLightbox (components/common/image-gallery.tsx).  The images prop is *)
(* a list of lbLength images that stays the same while the lightbox is      *)
(* open, so the handlers the keydown listener captured at mount see the     *)
(* same length as those of the latest render.  zoom is counted in steps of  *)
(* 0.5: 2 is zoom 1, 8 is zoom 4.                                           *)

MaxImages == 11

\* JavaScript's %: the result takes the sign of the dividend.
Remainder(a, b) == IF a >= 0 THEN a % b ELSE 0 - ((0 - a) % b)

NextIndex(i, length) == Remainder(i + 1, length)

\* variant: without adding images.length before the remainder.
PrevIndexBare(i, length) == Remainder(i - 1, length)

PrevIndex(i, length) == Remainder(i - 1 + length, length)

Min(a, b) == IF a <= b THEN a ELSE b

Max(a, b) == IF a >= b THEN a ELSE b

hasMultiple == lbLength > 1

LbIdle ==
  /\ lbLength = 1
  /\ lbCurrentIndex = 0
  /\ lbZoom = 2
  /\ lbRotation = 0
  /\ lbLast = [op |-> "none", from |-> 0]

\* A lightbox opened on a non-empty list with initialIndex within range.
LbInit ==
  /\ lbLength \in 1..MaxImages
  /\ lbCurrentIndex \in 0..(lbLength - 1)
  /\ lbZoom = 2
  /\ lbRotation = 0
  /\ lbLast = [op |-> "none", from |-> 0]

\* setCurrentIndex, and the effect on [currentIndex] that resets the view when
\* the index has changed.
SetCurrentIndex(index, op) ==
  /\ lbCurrentIndex' = index
  /\ lbLast' = [op |-> op, from |-> lbCurrentIndex]
  /\ IF index # lbCurrentIndex
       THEN lbZoom' = 2 /\ lbRotation' = 0
       ELSE UNCHANGED <<lbZoom, lbRotation>>
  /\ UNCHANGED lbLength
  /\ UNCHANGED <<mdVars, hlVars, ouVars, icVars, aeVars, llVars, muVars, fsVars, epVars>>

goNext == SetCurrentIndex(NextIndex(lbCurrentIndex, lbLength), "goNext")

goPrev == SetCurrentIndex(PrevIndex(lbCurrentIndex, lbLength), "goPrev")

zoomIn ==
  /\ lbZoom' = Min(lbZoom + 1, 8)
  /\ UNCHANGED <<lbLength, lbCurrentIndex, lbRotation, lbLast>>
  /\ UNCHANGED <<mdVars, hlVars, ouVars, icVars, aeVars, llVars, muVars, fsVars, epVars>>

zoomOut ==
  /\ lbZoom' = Max(lbZoom - 1, 1)
  /\ UNCHANGED <<lbLength, lbCurrentIndex, lbRotation, lbLast>>
  /\ UNCHANGED <<mdVars, hlVars, ouVars, icVars, aeVars, llVars, muVars, fsVars, epVars>>

rotate ==
  /\ lbRotation' = Remainder(lbRotation + 90, 360)
  /\ UNCHANGED <<lbLength, lbCurrentIndex, lbZoom, lbLast>>
  /\ UNCHANGED <<mdVars, hlVars, ouVars, icVars, aeVars, llVars, muVars, fsVars, epVars>>

resetView ==
  /\ lbZoom' = 2
  /\ lbRotation' = 0
  /\ UNCHANGED <<lbLength, lbCurrentIndex, lbLast>>
  /\ UNCHANGED <<mdVars, hlVars, ouVars, icVars, aeVars, llVars, muVars, fsVars, epVars>>

\* The keys the keydown listener acts on, Escape (onClose) aside.
Keys == {"ArrowLeft", "ArrowRight", "+", "=", "-", "r", "0"}

handleKeyDown(key) ==
  CASE key = "ArrowLeft" -> goPrev
    [] key = "ArrowRight" -> goNext
    [] key \in {"+", "="} -> zoomIn
    [] key = "-" -> zoomOut
    [] key = "r" -> rotate
    [] key = "0" -> resetView

\* The previous and next buttons, shown when there are several images.
ClickPrev == hasMultiple /\ goPrev

ClickNext == hasMultiple /\ goNext

\* The thumbnails, shown for two to ten images.
ClickThumbnail(index) ==
  /\ hasMultiple
  /\ lbLength <= 10
  /\ index \in 0..(lbLength - 1)
  /\ SetCurrentIndex(index, "thumbnail")

LbNext ==
  \/ \E key \in Keys : handleKeyDown(key)
  \/ ClickPrev
  \/ ClickNext
  \/ zoomIn
  \/ zoomOut
  \/ rotate
  \/ \E index \in 0..(MaxImages - 1) : ClickThumbnail(index)

----------------------------------------------------------------------------
(* EmojiPicker (components/common/emoji.tsx).  An emoji is one character;   *)
(* localStorage holds the JSON text of the recent list.  handleSelect is    *)
(* made anew by every render and runs on a click, and React renders again   *)
(* before the next click, so it reads the current recentEmojis.             *)

RecentLimit == 20

MaxEmojis == 22

Alphabet ==
  <<"a", "b", "c", "d", "e", "f", "g", "h", "i", "j", "k", "l", "m", "n", "o", "p",
    "q", "r", "s", "t", "u", "v", "w", "x", "y", "z">>

\* The emojis clicked: the first and the last of a full stored list, and those
\* beyond it.
Clicked == {Alphabet[k] : k \in {1, RecentLimit} \cup ((RecentLimit + 1)..MaxEmojis)}

\* JSON.stringify of a list of one-character strings that need no escape.
RECURSIVE StringifyItems(_)
StringifyItems(list) ==
  IF list = <<>> THEN <<>>
  ELSE <<"\"", Head(list), "\"">>
         \o (IF Len(list) > 1 THEN <<",">> ELSE <<>>)
         \o StringifyItems(Tail(list))

JSONstringify(list) == <<"[">> \o StringifyItems(list) \o <<"]">>

\* JSON.parse of such a text, read from position i on.
RECURSIVE ParseItems(_, _)
ParseItems(text, i) ==
  IF i > Len(text) \/ text[i] = "]" THEN <<>>
  ELSE IF text[i] = "," THEN ParseItems(text, i + 1)
  ELSE <<text[i + 1]>> \o ParseItems(text, i + 3)

JSONparse(text) == ParseItems(text, 2)

\* Array.prototype.slice(start, end) and filter(e => e !== emoji)
slice(list, start, end) == SubSeq(list, start + 1, Min(end, Len(list)))

Without(list, emoji) == SelectSeq(list, LAMBDA e : e # emoji)

\* variant: the selected emoji is put in front without being filtered out.
newRecentUnfiltered(emoji, recentEmojis) ==
  slice(<<emoji>> \o recentEmojis, 0, RecentLimit)

newRecent(emoji, recentEmojis) ==
  slice(<<emoji>> \o Without(recentEmojis, emoji), 0, RecentLimit)

EpIdle ==
  /\ epRecent = <<>>
  /\ epOpen = FALSE
  /\ epStored = Null
  /\ epPc = "constructed"
  /\ epLast = <<>>

\* The lists found in localStorage: without duplicates, of up to RecentLimit
\* entries.
StoredLists == {SubSeq(Alphabet, 1, n) : n \in 0..RecentLimit}

\* A picker constructed over a stored list, or over no stored value.
EpInit ==
  /\ epRecent = <<>>
  /\ epOpen = FALSE
  /\ epStored \in {JSONstringify(list) : list \in StoredLists} \cup {Null}
  /\ epPc = "constructed"
  /\ epLast = <<>>

\* The effect that runs once after mount.
EpMount ==
  /\ epPc = "constructed"
  /\ epPc' = "mounted"
  /\ epRecent' = IF epStored # Null THEN JSONparse(epStored) ELSE epRecent
  /\ UNCHANGED <<epOpen, epStored, epLast>>
  /\ UNCHANGED <<mdVars, hlVars, ouVars, icVars, aeVars, llVars, muVars, fsVars, lbVars>>

\* The popover opens or closes: onOpenChange.
EpOpenChange ==
  /\ epPc = "mounted"
  /\ epOpen' = ~epOpen
  /\ UNCHANGED <<epRecent, epStored, epPc, epLast>>
  /\ UNCHANGED <<mdVars, hlVars, ouVars, icVars, aeVars, llVars, muVars, fsVars, lbVars>>

\* A click on an emoji of the open popover.
handleSelect(emoji) ==
  /\ epPc = "mounted"
  /\ epOpen
  /\ epRecent' = newRecent(emoji, epRecent)
  /\ epStored' = JSONstringify(newRecent(emoji, epRecent))
  /\ epOpen' = FALSE
  /\ epLast' = <<emoji>>
  /\ UNCHANGED epPc
  /\ UNCHANGED <<mdVars, hlVars, ouVars, icVars, aeVars, llVars, muVars, fsVars, lbVars>>

EpNext ==
  \/ EpMount
  \/ EpOpenChange
  \/ \E emoji \in Clicked : handleSelect(emoji)

----------------------------------------------------------------------------
(* The hooks and components that a family of inputs leaves alone stay as  *)
(* they were constructed.                                                  *)

HooksIdle ==
  /\ TRUE
  /\ OuIdle
  /\ IcIdle
  /\ AeIdle
  /\ LlIdle
  /\ MuIdle
  /\ FsIdle
  /\ LbIdle
  /\ EpIdle

----------------------------------------------------------------------------
(* Arbitrary documents: the concatenations of a few markdown and HTML      *)
(* fragments, the empty document and unbalanced markup among them.         *)

MaxTokens == 3
ScriptTag == <<"<", "s", "c", "r", "i", "p", "t", ">">>
DocumentTokens ==
  { <<"&">>, <<"<">>, <<">">>, <<"a">>, <<"*", "*">>, <<"_">>, <<Backtick>>, <<"\n">>, <<"#", " ">> }
\* the documents the specification names, and an unterminated fence followed
\* by a line of rule characters
ExampleDocuments ==
  { ScriptTag, <<"&">> \o ScriptTag, <<"<", "b", ">", "x", "<", "/", "b", ">">>, Fence \o <<"\n", "*", "*", "_">> }
Documents == TokenStrings(DocumentTokens, MaxTokens) \cup ExampleDocuments

InitDocuments == MdInit(Documents, BOOLEAN) /\ HlIdle /\ HooksIdle
SpecDocuments == InitDocuments /\ [][Render]_vars

\* one pass that turns each entity of the escape step back into its character
Unescape(s) ==
  LET M(t, i) == IF At(t, i, <<"&", "a", "m", "p", ";">>) THEN i + 4
                 ELSE IF At(t, i, <<"&", "l", "t", ";">>) \/ At(t, i, <<"&", "g", "t", ";">>) THEN i + 3
                 ELSE 0
      R(t, i, e) == IF At(t, i, <<"&", "a", "m", "p", ";">>) THEN <<"&">>
                    ELSE IF At(t, i, <<"&", "l", "t", ";">>) THEN <<"<">> ELSE <<">">>
  IN ReplaceAll(s, M, R)

\* the openings of the tags in the templates of parseMarkdown
RendererTagOpenings ==
  { <<"<", "p", "r", "e", " ", "c", "l", "a", "s", "s", "=", "\"", "c", "o", "d", "e", "-", "b", "l", "o", "c", "k", "\"", " ", "d", "a", "t", "a", "-", "l", "a", "n", "g", "=", "\"">>, <<"<", "c", "o", "d", "e", ">">>, <<"<", "c", "o", "d", "e", " ", "c", "l", "a", "s", "s", "=", "\"", "i", "n", "l", "i", "n", "e", "-", "c", "o", "d", "e", "\"", ">">>,
    <<"<", "/", "c", "o", "d", "e", ">">>, <<"<", "/", "p", "r", "e", ">">>, <<"<", "s", "t", "r", "o", "n", "g", ">">>, <<"<", "/", "s", "t", "r", "o", "n", "g", ">">>, <<"<", "e", "m", ">">>, <<"<", "/", "e", "m", ">">>,
    <<"<", "d", "e", "l", ">">>, <<"<", "/", "d", "e", "l", ">">>, <<"<", "a", " ", "h", "r", "e", "f", "=", "\"">>, <<"<", "/", "a", ">">>, <<"<", "i", "m", "g", " ", "s", "r", "c", "=", "\"">>,
    <<"<", "b", "l", "o", "c", "k", "q", "u", "o", "t", "e", ">">>, <<"<", "/", "b", "l", "o", "c", "k", "q", "u", "o", "t", "e", ">">>, <<"<", "h", "r", " ", "/", ">">>, <<"<", "l", "i", ">">>, <<"<", "/", "l", "i", ">">>,
    <<"<", "l", "i", " ", "c", "l", "a", "s", "s", "=", "\"", "t", "a", "s", "k", "-", "i", "t", "e", "m", "\"", ">">>, <<"<", "i", "n", "p", "u", "t", " ", "t", "y", "p", "e", "=", "\"", "c", "h", "e", "c", "k", "b", "o", "x", "\"", " ">>, <<"<", "u", "l", ">">>, <<"<", "/", "u", "l", ">">>,
    <<"<", "p", ">">>, <<"<", "/", "p", ">">>, <<"<", "b", "r", " ", "/", ">">> }
    \cup {HeadingOpen(n) : n \in 1..6} \cup {HeadingClose(n) : n \in 1..6}
RendererTagAt(s, i) == \E tag \in RendererTagOpenings : At(s, i, tag)

\* C1: with allowHtml false the escape step turns every &, < and > of the
\* input into its entity exactly once (undoing one level of escaping gives the
\* input back, and no < or > is left), so in the output every < opens a tag of
\* the renderer's own templates and the <script> of an input is never there.
C1_EscapedOnce ==
  (mdPc = "rendered" /\ ~allowHtml) =>
    LET escaped == EscapeHtml(content)
    IN /\ \A k \in 1..Len(escaped) : escaped[k] \notin {"<", ">"}
       /\ Unescape(escaped) = content
       /\ \A i \in 1..Len(html) : html[i] = "<" => RendererTagAt(html, i)
       /\ ~Contains(html, ScriptTag)
C1_Witness ==
  /\ mdPc = "rendered" /\ ~allowHtml
  /\ content = <<"&">> \o ScriptTag
  /\ html = <<"<", "p", ">", "&", "a", "m", "p", ";", "&", "l", "t", ";", "s", "c", "r", "i", "p", "t", "&", "g", "t", ";", "<", "/", "p", ">">>

\* C3: parseMarkdown returns a string for every document, the empty one and
\* the unbalanced ones included, and for both values of allowHtml.
C3_Total == mdPc = "rendered" => IsString(html)
C3_Witness ==
  /\ mdPc = "rendered" /\ allowHtml
  /\ content = Fence \o <<"\n">> \o <<"*", "*">> \o <<"_">>
  /\ html = <<"<", "p", ">">> \o Fence \o <<"<", "b", "r", " ", "/", ">", "<", "h", "r", " ", "/", ">", "<", "/", "p", ">">>

\* C9: the empty document renders to the empty string.
C9_EmptyDocument ==
  (mdPc = "rendered" /\ content = <<>> /\ ~allowHtml) => html = <<>>
C9_Witness == mdPc = "rendered" /\ content = <<>> /\ ~allowHtml /\ html = <<>>

----------------------------------------------------------------------------
(* Fenced code blocks: an opening fence with a language tag, a body of     *)
(* markdown-looking text, a closing fence.                                 *)

MaxBodyTokens == 3
FenceBodyTokens == { <<"*", "*">>, <<"a">>, <<Backtick>>, <<"_">>, <<" ">> }
FenceBodies == TokenStrings(FenceBodyTokens, MaxBodyTokens)
FenceLanguages == { <<>>, <<"j", "s">> }
FencedDocument(lang, body) == Fence \o lang \o <<"\n">> \o body \o <<"\n">> \o Fence
FencedDocuments == {FencedDocument(lang, body) : lang \in FenceLanguages, body \in FenceBodies}

InitFences == MdInit(FencedDocuments, BOOLEAN) /\ HlIdle /\ HooksIdle
SpecFences == InitFences /\ [][Render]_vars

\* C2: the body of a fenced code block reaches the output unchanged (trimmed),
\* inside the <pre><code> block: no later rule rewrites it.
C2_FenceBodyLiteral ==
  mdPc = "rendered" =>
    \A lang \in FenceLanguages, body \in FenceBodies :
      content = FencedDocument(lang, body) =>
        html = <<"<", "p", "r", "e", " ", "c", "l", "a", "s", "s", "=", "\"", "c", "o", "d", "e", "-", "b", "l", "o", "c", "k", "\"", " ", "d", "a", "t", "a", "-", "l", "a", "n", "g", "=", "\"">> \o lang \o <<"\"", ">", "<", "c", "o", "d", "e", ">">>
                 \o Trim(body) \o <<"<", "/", "c", "o", "d", "e", ">", "<", "/", "p", "r", "e", ">">>

----------------------------------------------------------------------------
(* Bold around italic: the document **_t_** for a text t that holds        *)
(* neither * nor _.                                                        *)

MaxTextTokens == 3
EmphasisTextTokens ==
  { <<"x">>, <<" ">>, <<"\n">>, <<"#", " ">>, <<"-", " ">>, <<Backtick>>, <<"<">>, <<"~", "~">> }
EmphasisTexts == TokenStrings(EmphasisTextTokens, MaxTextTokens)
BoldItalicDocument(t) == <<"*", "*", "_">> \o t \o <<"_", "*", "*">>
BoldItalicDocuments == {BoldItalicDocument(t) : t \in EmphasisTexts}

InitEmphasis == MdInit(BoldItalicDocuments, {FALSE}) /\ HlIdle /\ HooksIdle
SpecEmphasis == InitEmphasis /\ [][Render]_vars

\* the <strong>, </strong>, <em> and </em> tags of s in their order
EmphasisTagAt(s, k) ==
  IF At(s, k, <<"<", "s", "t", "r", "o", "n", "g", ">">>) THEN "strong"
  ELSE IF At(s, k, <<"<", "/", "s", "t", "r", "o", "n", "g", ">">>) THEN "/strong"
  ELSE IF At(s, k, <<"<", "e", "m", ">">>) THEN "em"
  ELSE IF At(s, k, <<"<", "/", "e", "m", ">">>) THEN "/em"
  ELSE "none"
EmphasisTags(s) ==
  LET IsTag(k) == EmphasisTagAt(s, k) # "none"
      at == SelectSeq([k \in 1..Len(s) |-> k], IsTag)
  IN [j \in 1..Len(at) |-> EmphasisTagAt(s, at[j])]
NestedBoldItalic == <<"strong", "em", "/em", "/strong">>
\* a text of letters and spaces only
IsPlainText(t) == \A k \in 1..Len(t) : t[k] \in {"x", " "}

\* C6 as stated: for every such t, the empty one included, the output nests
\* one <em> element inside one <strong> element.
C6_BoldWrapsItalicAnyText ==
  mdPc = "rendered" => EmphasisTags(html) = NestedBoldItalic
\* C6 amended: for every such t that is not empty the emphasis tags of the
\* output are <strong><em> ... </em></strong> in this order, and when t is
\* plain text the output is exactly <strong><em>t</em></strong>.
C6_BoldWrapsItalic ==
  mdPc = "rendered" =>
    \A t \in EmphasisTexts :
      (content = BoldItalicDocument(t) /\ t # <<>>) =>
        /\ EmphasisTags(html) = NestedBoldItalic
        /\ IsPlainText(t) => html = <<"<", "s", "t", "r", "o", "n", "g", ">", "<", "e", "m", ">">> \o t \o <<"<", "/", "e", "m", ">", "<", "/", "s", "t", "r", "o", "n", "g", ">">>
C6_Witness ==
  /\ mdPc = "rendered"
  /\ content = BoldItalicDocument(<<"x">>)
  /\ html = <<"<", "s", "t", "r", "o", "n", "g", ">", "<", "e", "m", ">", "x", "<", "/", "e", "m", ">", "<", "/", "s", "t", "r", "o", "n", "g", ">">>

----------------------------------------------------------------------------
(* Headings: n hashes, whitespace and a text, on the first line of the     *)
(* document or after another line.                                         *)

MaxHeadingTokens == 2
HeadingLevels == 6
HeadingTextTokens == { <<"h">>, <<"6">>, <<" ">> }
HeadingTexts ==
  {t \in TokenStrings(HeadingTextTokens, MaxHeadingTokens) : t # <<>> /\ ~IsSpace(t[1])}
HeadingGaps == { <<" ">>, <<" ", " ">>, <<"\t">> }
LinesBefore == { <<>>, <<"x", "\n">> }
HeadingDocument(before, n, gap, t) == before \o Hashes(n) \o gap \o t
HeadingDocuments ==
  {HeadingDocument(before, n, gap, t) :
     before \in LinesBefore, n \in 1..HeadingLevels, gap \in HeadingGaps, t \in HeadingTexts}

InitHeadings == MdInit(HeadingDocuments, BOOLEAN) /\ HlIdle /\ HooksIdle
SpecHeadings == InitHeadings /\ [][Render]_vars

----------------------------------------------------------------------------
(* Task lists: bullet lines whose text opens with a check box.             *)

MaxTaskLines == 2
Bullets == { <<"-">>, <<"*">> }
CheckBoxes == { <<"[", " ", "]">>, <<"[", "x", "]">>, <<"[", "X", "]">> }
TaskTexts == { <<"d", "o", "n", "e">>, <<"a">> }
TaskLine(bullet, box, t) == bullet \o <<" ">> \o box \o <<" ">> \o t
TaskLines == {<<bullet, box, t>> : bullet \in Bullets, box \in CheckBoxes, t \in TaskTexts}
\* the documents of 1..n task lines, each as the sequence of its lines
RECURSIVE TaskLineLists(_)
TaskLineLists(n) ==
  IF n = 0 THEN {<<>>}
  ELSE LET shorter == TaskLineLists(n - 1)
       IN shorter \cup {Append(d, l) : d \in shorter, l \in TaskLines}
RECURSIVE TaskDocument(_)
TaskDocument(lines) ==
  IF Len(lines) = 1 THEN TaskLine(lines[1][1], lines[1][2], lines[1][3])
  ELSE TaskLine(lines[1][1], lines[1][2], lines[1][3]) \o <<"\n">> \o TaskDocument(Tail(lines))
TaskDocuments == {TaskDocument(d) : d \in TaskLineLists(MaxTaskLines) \ {<<>>}}

InitTasks == MdInit(TaskDocuments, BOOLEAN) /\ HlIdle /\ HooksIdle
SpecTasks == InitTasks /\ [][Render]_vars

\* the item a task line is to become
TaskItem(box, t) ==
  IF box = <<"[", " ", "]">>
  THEN <<"<", "l", "i", " ", "c", "l", "a", "s", "s", "=", "\"", "t", "a", "s", "k", "-", "i", "t", "e", "m", "\"", ">", "<", "i", "n", "p", "u", "t", " ", "t", "y", "p", "e", "=", "\"", "c", "h", "e", "c", "k", "b", "o", "x", "\"", " ", "d", "i", "s", "a", "b", "l", "e", "d", " ", "/", ">", " ">> \o t \o <<"<", "/", "l", "i", ">">>
  ELSE <<"<", "l", "i", " ", "c", "l", "a", "s", "s", "=", "\"", "t", "a", "s", "k", "-", "i", "t", "e", "m", "\"", ">", "<", "i", "n", "p", "u", "t", " ", "t", "y", "p", "e", "=", "\"", "c", "h", "e", "c", "k", "b", "o", "x", "\"", " ", "c", "h", "e", "c", "k", "e", "d", " ", "d", "i", "s", "a", "b", "l", "e", "d", " ", "/", ">", " ">> \o t \o <<"<", "/", "l", "i", ">">>

\* C8: every bullet line whose text opens with [ ], [x] or [X] becomes a list
\* item with a disabled check box, checked for x and X, followed by the rest of
\* the text.
C8_TaskItems ==
  mdPc = "rendered" =>
    \A d \in TaskLineLists(MaxTaskLines) \ {<<>>} :
      content = TaskDocument(d) =>
        \A k \in 1..Len(d) : Contains(html, TaskItem(d[k][2], d[k][3]))

----------------------------------------------------------------------------
(* Highlighting: short programs of keywords, identifiers, numbers, quotes  *)
(* and comment markers, under languages inside and outside the table.      *)

MaxCodeTokens == 3
CodeTokens ==
  { <<"r", "e", "t", "u", "r", "n">>, <<"x">>, <<" ">>, <<"d", "e", "f">>, <<"c", "o", "n", "s", "t">>, <<"1">>, <<".">>, <<"\"">>, <<"/", "/">> }
ExampleCodes == { <<"r", "e", "t", "u", "r", "n", " ", "x">>, <<"/", "*", " ", "x", " ", "*", "/">>, <<"c", "l", "a", "s", "s">> }
Codes == TokenStrings(CodeTokens, MaxCodeTokens) \cup ExampleCodes
Languages ==
  { <<"p", "y", "t", "h", "o", "n">>, <<"P", "y", "t", "h", "o", "n">>, <<"j", "a", "v", "a", "s", "c", "r", "i", "p", "t">>, <<"t", "y", "p", "e", "s", "c", "r", "i", "p", "t">>, <<"g", "o">>,
    <<"c", "o", "n", "s", "t", "r", "u", "c", "t", "o", "r">>, <<"_", "_", "p", "r", "o", "t", "o", "_", "_">>, <<>> }

InitHighlight == HlInit(Codes, Languages) /\ MdIdle /\ HooksIdle
SpecHighlight == InitHighlight /\ [][Highlight]_vars

\* C4: highlightCode returns a string for every code and every language,
\* whether or not the table holds the language.
C4_HighlightTotal == hlPc = "rendered" => IsString(highlighted)

\* a program of identifiers and spaces only: no string, comment or number
IsIdentifiersOnly(s) == \A k \in 1..Len(s) : s[k] \in LowerLetters \cup {" "}
\* s with each whole word that is one of kws inside one keyword span, and
\* nothing else changed
KeywordSpans(s, kws) ==
  LET WordEnd(t, i) == RunEnd(t, i, IsWordChar)
      M(t, i) == IF /\ IsWordChar(t[i])
                    /\ WordBoundaryAfter(t, i - 1)
                    /\ \E k \in 1..Len(kws) : kws[k] = SubSeq(t, i, WordEnd(t, i))
                 THEN WordEnd(t, i) ELSE 0
      R(t, i, e) == <<"<", "s", "p", "a", "n", " ", "c", "l", "a", "s", "s", "=", "\"", "k", "e", "y", "w", "o", "r", "d", "\"", ">">> \o SubSeq(t, i, e) \o <<"<", "/", "s", "p", "a", "n", ">">>
  IN ReplaceAll(s, M, R)

\* C5: under a language of the table every whole-word keyword of the code is
\* inside exactly one well-formed keyword span and no other word is wrapped.
C5_KeywordSpans ==
  (hlPc = "rendered" /\ toLowerCase(language) \in DOMAIN keywords /\ IsIdentifiersOnly(code)) =>
    highlighted = KeywordSpans(code, keywords[toLowerCase(language)])

\* C18: the lookup ignores the case of the language name, and under a language
\* name that is no entry of the keyword table the keyword set is empty and the
\* output is a string without keyword spans.
C18_LanguageLookup ==
  (hlPc = "rendered" /\ language # <<>>) =>
    /\ highlighted = highlightCode(code, toLowerCase(language))
    /\ toLowerCase(language) \notin DOMAIN keywords =>
         /\ langKeywords(language) = <<>>
         /\ IsString(highlighted)
         /\ ~Contains(highlighted, <<"<", "s", "p", "a", "n", " ", "c", "l", "a", "s", "s", "=", "\"", "k", "e", "y", "w", "o", "r", "d", "\"", ">">>)

----------------------------------------------------------------------------
(* Quoted literals that hold comment-looking text.                         *)

MaxCommentWords == 3
Quotes == {"\"", "'", Backtick}
CommentMarkers == { <<"/", "/">>, <<"#">> }
TextsBeforeMarker == { <<>>, <<"a", " ">> }
CommentWords == { <<" ", "n", "o", "t">>, <<" ", "a">>, <<" ", "c", "o", "m", "m", "e", "n", "t">> }
CommentTexts == TokenStrings(CommentWords, MaxCommentWords)
QuotedComment(q, before, marker, rest) == <<q>> \o before \o marker \o rest \o <<q>>
QuotedComments ==
  {QuotedComment(q, before, marker, rest) :
     q \in Quotes, before \in TextsBeforeMarker, marker \in CommentMarkers, rest \in CommentTexts}
QuotedCommentLanguages == { <<"j", "a", "v", "a", "s", "c", "r", "i", "p", "t">>, <<"p", "y", "t", "h", "o", "n">>, <<"g", "o">> }

InitQuotedComments == HlInit(QuotedComments, QuotedCommentLanguages) /\ MdIdle /\ HooksIdle
SpecQuotedComments == InitQuotedComments /\ [][Highlight]_vars

\* the literal in its string span with the comment-looking text, up to the end
\* of the line, in a comment span opened inside it
NestedSpans(q, before, marker, rest) ==
  <<"<", "s", "p", "a", "n", " ", "c", "l", "a", "s", "s", "=", "\"", "s", "t", "r", "i", "n", "g", "\"", ">">> \o <<q>> \o before
    \o <<"<", "s", "p", "a", "n", " ", "c", "l", "a", "s", "s", "=", "\"", "c", "o", "m", "m", "e", "n", "t", "\"", ">">> \o marker \o rest \o <<q>> \o <<"<", "/", "s", "p", "a", "n", ">">> \o <<"<", "/", "s", "p", "a", "n", ">">>

\* C10: for a quoted literal that holds comment-looking text highlightCode
\* returns the literal in a string span with the comment-looking text in a
\* comment span inside that string span.
C10_CommentInsideString ==
  hlPc = "rendered" =>
    \A q \in Quotes, before \in TextsBeforeMarker, marker \in CommentMarkers, rest \in CommentTexts :
      code = QuotedComment(q, before, marker, rest) =>
        highlighted = NestedSpans(q, before, marker, rest)

----------------------------------------------------------------------------
(* Images: the document ![alt](url), alone or after some text.             *)

MaxAltTokens == 2
AltTokens == { <<"a">>, <<"l">>, <<" ">> }
Alts == TokenStrings(AltTokens, MaxAltTokens)
Urls == { <<"u">>, <<"u", "/", "v">>, <<"u", ".", "p", "n", "g">> }
TextsBeforeImage == { <<>>, <<"x", " ">> }
ImageDocument(before, alt, url) == before \o <<"!", "[">> \o alt \o <<"]", "(">> \o url \o <<")">>
ImageDocuments ==
  {ImageDocument(before, alt, url) : before \in TextsBeforeImage, alt \in Alts, url \in Urls}

InitImages == MdInit(ImageDocuments, BOOLEAN) /\ HlIdle /\ HooksIdle
SpecImages == InitImages /\ [][Render]_vars

\* the element an image is to become
ImageElement(alt, url) ==
  <<"<", "i", "m", "g", " ", "s", "r", "c", "=", "\"">> \o url \o <<"\"", " ", "a", "l", "t", "=", "\"">> \o alt \o <<"\"", " ", "c", "l", "a", "s", "s", "=", "\"", "m", "a", "r", "k", "d", "o", "w", "n", "-", "i", "m", "a", "g", "e", "\"", " ", "/", ">">>

\* C11: ![alt](url) becomes the image element with src = url and alt = alt,
\* and the output holds no anchor.
C11_ImageElement ==
  mdPc = "rendered" =>
    \A before \in TextsBeforeImage, alt \in Alts, url \in Urls :
      content = ImageDocument(before, alt, url) =>
        /\ Contains(html, ImageElement(alt, url))
        /\ ~Contains(html, <<"<", "a", " ">>)

----------------------------------------------------------------------------
(* Block quotes: one or more lines of > , whitespace and a text.           *)

MaxQuoteLines == 2
QuoteGaps == { <<" ">>, <<" ", " ">>, <<"\t">> }
QuoteTexts == { <<"q">>, <<"a", " ", "b">> }
QuoteLines == {<<gap, t>> : gap \in QuoteGaps, t \in QuoteTexts}
QuoteLine(l) == <<">">> \o l[1] \o l[2]
\* the documents of at most n quote lines, each as the sequence of its lines
RECURSIVE QuoteLineLists(_)
QuoteLineLists(n) ==
  IF n = 0 THEN {<<>>}
  ELSE LET shorter == QuoteLineLists(n - 1)
       IN shorter \cup {Append(d, l) : d \in shorter, l \in QuoteLines}
RECURSIVE QuoteDocument(_)
QuoteDocument(lines) ==
  IF Len(lines) = 1 THEN QuoteLine(lines[1])
  ELSE QuoteLine(lines[1]) \o <<"\n">> \o QuoteDocument(Tail(lines))
QuoteDocuments == {QuoteDocument(d) : d \in QuoteLineLists(MaxQuoteLines) \ {<<>>}}

InitQuotes == MdInit(QuoteDocuments, BOOLEAN) /\ HlIdle /\ HooksIdle
SpecQuotes == InitQuotes /\ [][Render]_vars

\* the number of places of s at which the literal p occurs
Occurrences(s, p) == Cardinality({i \in 1..Len(s) : At(s, i, p)})

\* C12: under both values of allowHtml every line of > , whitespace and a
\* text becomes one <blockquote> element holding the text, one element per
\* line.
C12_QuotePerLine ==
  mdPc = "rendered" =>
    \A d \in QuoteLineLists(MaxQuoteLines) \ {<<>>} :
      content = QuoteDocument(d) =>
        /\ \A k \in 1..Len(d) :
             Contains(html, <<"<", "b", "l", "o", "c", "k", "q", "u", "o", "t", "e", ">">> \o d[k][2] \o <<"<", "/", "b", "l", "o", "c", "k", "q", "u", "o", "t", "e", ">">>)
        /\ Occurrences(html, <<"<", "b", "l", "o", "c", "k", "q", "u", "o", "t", "e", ">">>) = Len(d)
        /\ Occurrences(html, <<"<", "/", "b", "l", "o", "c", "k", "q", "u", "o", "t", "e", ">">>) = Len(d)

----------------------------------------------------------------------------
(* Bullet lists: lines with a - or * bullet, and plain lines between the   *)
(* runs.                                                                   *)

MaxListLines == 3
BulletTexts == { <<"a">>, <<"b">> }
\* a bullet line is <<bullet, text>>; a plain line is <<"", text>>
ListLines == {<<bullet, t>> : bullet \in {"-", "*"}, t \in BulletTexts} \cup { <<"", <<"x">>>> }
IsBulletLine(l) == l[1] # ""
ListLine(l) == IF IsBulletLine(l) THEN <<l[1]>> \o <<" ">> \o l[2] ELSE l[2]
RECURSIVE ListLineLists(_)
ListLineLists(n) ==
  IF n = 0 THEN {<<>>}
  ELSE LET shorter == ListLineLists(n - 1)
       IN shorter \cup {Append(d, l) : d \in shorter, l \in ListLines}
RECURSIVE ListDocument(_)
ListDocument(lines) ==
  IF Len(lines) = 1 THEN ListLine(lines[1])
  ELSE ListLine(lines[1]) \o <<"\n">> \o ListDocument(Tail(lines))
ListDocuments == {ListDocument(d) : d \in ListLineLists(MaxListLines) \ {<<>>}}

InitLists == MdInit(ListDocuments, {FALSE}) /\ HlIdle /\ HooksIdle
SpecLists == InitLists /\ [][Render]_vars

\* the bullet lines of d and the first lines of its maximal runs of them
BulletLinesOf(d) == {k \in 1..Len(d) : IsBulletLine(d[k])}
RunStartsOf(d) == {k \in BulletLinesOf(d) : k = 1 \/ ~IsBulletLine(d[k - 1])}

\* C13: every line of a - or * bullet, whitespace and a text becomes a list
\* item, and every maximal run of bullet lines is inside exactly one <ul>
\* element.
C13_BulletRuns ==
  mdPc = "rendered" =>
    \A d \in ListLineLists(MaxListLines) \ {<<>>} :
      content = ListDocument(d) =>
        /\ \A k \in BulletLinesOf(d) : Contains(html, LiOpen \o d[k][2] \o LiClose)
        /\ Occurrences(html, LiOpen) = Cardinality(BulletLinesOf(d))
        /\ Occurrences(html, <<"<", "u", "l", ">">>) = Cardinality(RunStartsOf(d))
        /\ Occurrences(html, <<"<", "/", "u", "l", ">">>) = Cardinality(RunStartsOf(d))

----------------------------------------------------------------------------
(* Ordered lists: lines with an ordinal marker, among bullet lines and     *)
(* plain lines.                                                            *)

MaxOrderedLines == 3
\* a line is <<marker, text>>: the marker of an ordered line is its ordinal
\* and a dot, of a bullet line the bullet, of a plain line nothing; the texts
\* of the ordered lines occur in no other line
OrderedLines == { <<<<"1", ".">>, <<"b">>>>, <<<<"2", ".">>, <<"c">>>>, <<<<"1", "0", ".">>, <<"d">>>> }
LinesAmongOrdered == OrderedLines \cup { <<<<"-">>, <<"a">>>>, <<<<>>, <<"x">>>> }
IsOrderedLine(l) == l \in OrderedLines
OrderedLine(l) == IF l[1] = <<>> THEN l[2] ELSE l[1] \o <<" ">> \o l[2]
RECURSIVE OrderedLineLists(_)
OrderedLineLists(n) ==
  IF n = 0 THEN {<<>>}
  ELSE LET shorter == OrderedLineLists(n - 1)
       IN shorter \cup {Append(d, l) : d \in shorter, l \in LinesAmongOrdered}
RECURSIVE OrderedDocument(_)
OrderedDocument(lines) ==
  IF Len(lines) = 1 THEN OrderedLine(lines[1])
  ELSE OrderedLine(lines[1]) \o <<"\n">> \o OrderedDocument(Tail(lines))
OrderedDocuments == {OrderedDocument(d) : d \in OrderedLineLists(MaxOrderedLines) \ {<<>>}}

InitOrdered == MdInit(OrderedDocuments, {FALSE}) /\ HlIdle /\ HooksIdle
SpecOrdered == InitOrdered /\ [][Render]_vars

\* index i of s lies between a <ul> and its </ul>
InsideUl(s, i) ==
  Occurrences(SubSeq(s, 1, i - 1), <<"<", "u", "l", ">">>) > Occurrences(SubSeq(s, 1, i - 1), <<"<", "/", "u", "l", ">">>)

\* C14: every line of an ordinal marker and a text becomes a <li> element
\* that is inside no <ul> element, and the output holds no <ol> element.
C14_OrderedItems ==
  mdPc = "rendered" =>
    \A d \in OrderedLineLists(MaxOrderedLines) \ {<<>>} :
      content = OrderedDocument(d) =>
        /\ \A k \in 1..Len(d) :
             IsOrderedLine(d[k]) =>
               /\ Contains(html, LiOpen \o d[k][2] \o LiClose)
               /\ \A i \in 1..Len(html) :
                    At(html, i, LiOpen \o d[k][2] \o LiClose) => ~InsideUl(html, i)
        /\ ~Contains(html, <<"<", "o", "l">>)

----------------------------------------------------------------------------
(* Horizontal rules: a line of three or more of - * _ in any mixture, alone *)
(* or after a line of text.                                                *)

MaxRuleLength == 4
RuleChars == { <<"-">>, <<"*">>, <<"_">> }
RuleLines == {r \in TokenStrings(RuleChars, MaxRuleLength) : Len(r) >= 3}
LinesBeforeRule == { <<>>, <<"x", "\n">> }
RuleDocument(before, r) == before \o r
RuleDocuments == {RuleDocument(before, r) : before \in LinesBeforeRule, r \in RuleLines}

InitRules == MdInit(RuleDocuments, {FALSE}) /\ HlIdle /\ HooksIdle
SpecRules == InitRules /\ [][Render]_vars

\* C15: a line of three or more characters of - * _ , in any mixture, becomes
\* one <hr /> element and none of its characters is left in the output.
C15_RuleLines ==
  mdPc = "rendered" =>
    \A before \in LinesBeforeRule, r \in RuleLines :
      content = RuleDocument(before, r) =>
        /\ Occurrences(html, <<"<", "h", "r", " ", "/", ">">>) = 1
        /\ \A k \in 1..Len(html) : ~IsRuleChar(html[k])

----------------------------------------------------------------------------
(* Blocks: paragraphs, headings, lists, quotes, fences and rules, with a   *)
(* single or a double newline between them.                                *)

MaxBlocks == 2
Blocks ==
  { <<"x">>, <<"#", " ", "h">>, <<"-", " ", "a">>, <<">", " ", "q">>, <<"-", "-", "-">>, Fence \o <<"\n", "c", "\n">> \o Fence }
BlockSeparators == { <<"\n">>, <<"\n", "\n">> }
RECURSIVE BlockDocumentsOf(_)
BlockDocumentsOf(n) ==
  IF n = 1 THEN Blocks
  ELSE LET shorter == BlockDocumentsOf(n - 1)
       IN shorter \cup {d \o sep \o b : d \in shorter, sep \in BlockSeparators, b \in Blocks}
BlockDocuments == BlockDocumentsOf(MaxBlocks)

InitBlocks == MdInit(BlockDocuments, BOOLEAN) /\ HlIdle /\ HooksIdle
SpecBlocks == InitBlocks /\ [][Render]_vars

\* a block-level element opens, or closes, at index i of s
BlockOpenAt(s, i) ==
  HeadingOpenAt(s, i) \/ UlOpenAt(s, i) \/ QuoteOpenAt(s, i) \/ PreOpenAt(s, i) \/ RuleAt(s, i)
BlockCloseEndsBefore(s, i) ==
  \/ HeadingCloseAt(s, i - 5)
  \/ UlCloseAt(s, i - 5)
  \/ QuoteCloseAt(s, i - 13)
  \/ PreCloseAt(s, i - 6)
  \/ RuleAt(s, i - 6)

\* C16: the output holds no <p></p>, no <p> just before a block-level element
\* and no </p> just after one.
C16_CleanedUp ==
  mdPc = "rendered" =>
    /\ ~Contains(html, <<"<", "p", ">", "<", "/", "p", ">">>)
    /\ \A i \in 1..Len(html) : At(html, i, <<"<", "p", ">">>) => ~BlockOpenAt(html, i + 3)
    /\ \A i \in 1..Len(html) : At(html, i, <<"<", "/", "p", ">">>) => ~BlockCloseEndsBefore(html, i)

----------------------------------------------------------------------------
(* Paragraph folding: texts, tags and single, double and triple newlines.  *)

MaxParagraphTokens == 3
ParagraphTokens == { <<"x">>, <<"\n">>, <<"#", " ">>, <<"-", " ">>, <<"<", " ">> }
ParagraphDocuments == TokenStrings(ParagraphTokens, MaxParagraphTokens)

InitParagraphs == MdInit(ParagraphDocuments, BOOLEAN) /\ HlIdle /\ HooksIdle
SpecParagraphs == InitParagraphs /\ [][Render]_vars

\* s with every paragraph boundary and every forced break turned back into
\* the newlines it stands for
Unfold(s) ==
  LET M(t, i) == IF At(t, i, <<"<", "/", "p", ">", "<", "p", ">">>) THEN i + 6
                 ELSE IF At(t, i, <<"<", "b", "r", " ", "/", ">">>) THEN i + 5 ELSE 0
      R(t, i, e) == IF At(t, i, <<"<", "/", "p", ">", "<", "p", ">">>) THEN <<"\n", "\n">> ELSE <<"\n">>
  IN ReplaceAll(s, M, R)
\* s starts with a tag: < and then a tag name or the / of a closing tag
StartsWithTag(s) ==
  Len(s) >= 2 /\ s[1] = "<" /\ (s[2] \in LowerLetters \cup UpperLetters \/ s[2] = "/")

\* C17: the folding turns every double newline into </p><p> and every newline
\* that is left into <br /> (a newline is left only when it has no partner, so
\* no two breaks are adjacent and no break is just before a boundary), and the
\* folded fragment is wrapped in <p>...</p> exactly when it does not start with
\* a tag.
C17_ParagraphFolding ==
  mdPc = "rendered" =>
    LET marked == MarkUp(content, allowHtml)
        folded == LineBreaks(marked)
    IN /\ \A k \in 1..Len(folded) : folded[k] # "\n"
       /\ Unfold(folded) = marked
       /\ ~Contains(folded, <<"<", "b", "r", " ", "/", ">", "<", "b", "r", " ", "/", ">">>)
       /\ ~Contains(folded, <<"<", "b", "r", " ", "/", ">", "<", "/", "p", ">", "<", "p", ">">>)
       /\ WrapParagraph(folded) =
            IF StartsWithTag(folded) THEN folded ELSE <<"<", "p", ">">> \o folded \o <<"<", "/", "p", ">">>
       /\ html = CleanUp(WrapParagraph(folded))

----------------------------------------------------------------------------
(* Unterminated fences: an opening fence, a language tag and a body that   *)
(* holds no closing fence.                                                 *)

MaxOpenBodyTokens == 3
OpenBodyTokens == { <<"x">>, <<" ">>, <<"<">>, <<"&">>, <<"\n">>, <<Backtick>> }
OpenBodies == {b \in TokenStrings(OpenBodyTokens, MaxOpenBodyTokens) : ~Contains(b, Fence)}
OpenFenceDocument(lang, body) == Fence \o lang \o <<"\n">> \o body
OpenFenceDocuments == {OpenFenceDocument(lang, body) : lang \in FenceLanguages, body \in OpenBodies}

InitOpenFences == MdInit(OpenFenceDocuments, BOOLEAN) /\ HlIdle /\ HooksIdle
SpecOpenFences == InitOpenFences /\ [][Render]_vars

\* C19: an opening fence without a closing fence is not matched by the fence
\* rule, the output holds no <pre> and no <code> element, and no rule changes
\* the text: what is folded into paragraphs is the document as it was after the
\* escape step.
C19_UnterminatedFence ==
  mdPc = "rendered" =>
    LET escaped == IF allowHtml THEN content ELSE EscapeHtml(content)
    IN /\ CodeBlocks(escaped) = escaped
       /\ ~Contains(html, <<"<", "p", "r", "e">>)
       /\ ~Contains(html, <<"<", "c", "o", "d", "e">>)
       /\ MarkUp(content, allowHtml) = escaped
       /\ html = CleanUp(WrapParagraph(LineBreaks(escaped)))

----------------------------------------------------------------------------
(* Line numbers: programs of one or more lines with comment markers and    *)
(* quotes, shown with and without line numbers.                            *)

MaxLineTokens == 3
LineTokens == { <<"/", "*">>, <<"*", "/">>, <<"\n">>, <<"x">>, <<"\"">>, <<"/", "/">> }
MultiLineComment == <<"/", "*", " ", "a", "\n", "b", " ", "*", "/">>
ExampleLineCodes == { MultiLineComment, <<"\"", "a", "\n", "b", "\"">>, <<"x", " ", "=", " ", "1", "\n", "/", "/", " ", "y">> }
LineCodes == TokenStrings(LineTokens, MaxLineTokens) \cup ExampleLineCodes
LineLanguages == { <<"g", "o">>, <<"j", "a", "v", "a", "s", "c", "r", "i", "p", "t">> }

InitLineNumbers == HlInitWith(LineCodes, LineLanguages, BOOLEAN) /\ MdIdle /\ HooksIdle
SpecLineNumbers == InitLineNumbers /\ [][Highlight]_vars

\* the strings of a sequence with a newline between them
RECURSIVE JoinLines(_)
JoinLines(cells) ==
  IF Len(cells) = 1 THEN cells[1]
  ELSE cells[1] \o <<"\n">> \o JoinLines(Tail(cells))

\* the matches <<first, last>> of a g-flag regex in s, as ReplaceAll finds them
MatchesOf(s, MatchEnd(_, _)) ==
  LET n == Len(s)
      Hit(k) == MatchEnd(s, k) # 0
      RECURSIVE go(_)
      go(from) ==
        LET i == FirstIndex(from, n, Hit)
        IN IF i > n THEN {} ELSE {<<i, MatchEnd(s, i)>>} \cup go(MatchEnd(s, i) + 1)
  IN go(1)
HoldsNewline(s, m) == \E k \in m[1]..m[2] : s[k] = "\n"
\* highlighting the whole of s matches a string literal or a block comment
\* that spans a line break
SpansLineBreak(s) ==
  LET commented == Then(HighlightStrings(s), HighlightLineComments)
  IN \/ \E m \in MatchesOf(s, StringLiteralEnd) : HoldsNewline(s, m)
     \/ \E m \in MatchesOf(commented, BlockCommentEnd) : HoldsNewline(commented, m)

\* C20: with line numbers CodeBlock highlights each line of the code on its
\* own; the cells, joined by newlines, differ from the highlighted whole
\* exactly when a construct of the code spans a line break, and a block comment
\* of several lines is in no comment span.
C20_PerLine ==
  (hlPc = "rendered" /\ showLineNumbers) =>
    /\ Len(rows) = Occurrences(code, <<"\n">>) + 1
    /\ JoinLines([i \in 1..Len(rows) |-> split(code)[i]]) = code
    /\ \A i \in 1..Len(rows) : rows[i] = highlightCode(split(code)[i], language)
    /\ (JoinLines(rows) # highlighted) <=> SpansLineBreak(code)
    /\ code = MultiLineComment =>
         /\ rows = << <<"/", "*", " ", "a">>, <<"b", " ", "*", "/">> >>
         /\ Contains(highlighted, <<"=", "\"", "c", "o", "m", "m", "e", "n", "t", "\"", ">", "/", "*", " ", "a", "\n", "b", " ", "*", "/", "<", "/", "s", "p", "a", "n", ">">>)
C20_Witness ==
  /\ hlPc = "rendered" /\ showLineNumbers
  /\ code = MultiLineComment
  /\ language = <<"g", "o">>
  /\ rows = << <<"/", "*", " ", "a">>, <<"b", " ", "*", "/">> >>
  /\ highlighted = <<"<", "s", "p", "a", "n", " ", "c", "l", "a", "s", "s", "=", "\"", "c", "o", "m", "m", "e", "n", "t", "\"", ">", "/", "*", " ", "a", "\n", "b", " ", "*", "/", "<", "/", "s", "p", "a", "n", ">">>

----------------------------------------------------------------------------
(* Optimistic updates: two update calls with any values and any outcome.   *)

InitOptimistic ==
  OuInit /\ MdIdle /\ HlIdle /\ IcIdle /\ AeIdle /\ LlIdle
    /\ MuIdle /\ FsIdle /\ LbIdle /\ EpIdle
SpecOptimistic == InitOptimistic /\ [][OuNext]_vars

\* C21: whenever updateFn rejects for an update call, value is restored to the
\* value that was current when that call was made and rollbackFn receives the
\* error of that call with that same value.
C21_Rollback ==
  \A k \in 1..Len(ouRollbacks) :
    LET r == ouRollbacks[k]
    IN /\ r.restored = ouCalls[r.call].current
       /\ r.previousValue = ouCalls[r.call].current
       /\ r.error = ErrorOf(r.call)

----------------------------------------------------------------------------
(* Cursor pagination: refresh and loadMore calls in any order, their       *)
(* fetches completing in any order.                                        *)

InitInfinite ==
  IcIdle /\ MdIdle /\ HlIdle /\ OuIdle /\ AeIdle /\ LlIdle
    /\ MuIdle /\ FsIdle /\ LbIdle /\ EpIdle
SpecInfinite == InitInfinite /\ [][IcNext]_vars

\* C22: at most one loadMore fetch is in flight, items is pages 1..k in their
\* order for some k (so no page is there twice), and no page was appended by a
\* loadMore call after a refresh that was started later than that call.
C22_ConsecutivePages ==
  /\ Cardinality({f \in FetchCalls : icFetches[f].pc = "more"}) <= 1
  /\ icItems = [k \in 1..Len(icItems) |-> k]
  /\ \A k \in 1..Len(icAppends) :
       icAppends[k].refreshesAtCall = icAppends[k].refreshesAtAppend

----------------------------------------------------------------------------
(* Async effects: up to MaxRuns runs of the effect, each resolving to a     *)
(* function or to nothing or rejecting, before or after its teardown.       *)

InitAsyncEffect ==
  AeIdle /\ MdIdle /\ HlIdle /\ OuIdle /\ IcIdle /\ LlIdle
    /\ MuIdle /\ FsIdle /\ LbIdle /\ EpIdle
SpecAsyncEffect == InitAsyncEffect /\ [][AeNext]_vars

\* C23: the function a run of the effect resolved to is never invoked before
\* the run is torn down and never more than once, and once the run is torn
\* down and has resolved to a function, in either order, the function has been
\* invoked exactly once.
C23_CleanupOnce ==
  \A r \in EffectRuns :
    /\ aeRuns[r].invoked <= 1
    /\ ~aeRuns[r].cancelled => aeRuns[r].invoked = 0
    /\ (aeRuns[r].cancelled /\ aeRuns[r].cleanup = "function")
         => aeRuns[r].invoked = 1

----------------------------------------------------------------------------
(* Lazy loading: up to MaxLoads load() calls, each made before or after the *)
(* loadFn promises of the calls before it have settled.                     *)

InitLazyLoad ==
  LlIdle /\ MdIdle /\ HlIdle /\ OuIdle /\ IcIdle /\ AeIdle
    /\ MuIdle /\ FsIdle /\ LbIdle /\ EpIdle
SpecLazyLoad == InitLazyLoad /\ [][LlNext]_vars

\* C24: when a load() call invokes loadFn, every earlier invocation of loadFn
\* has failed: none has succeeded and none is still in flight.
C24_LoadOnce ==
  \A c \in LoadCalls :
    llCalls[c].pc \in {"pending", "resolved", "rejected"}
      => llCalls[c].unfailed = {}

----------------------------------------------------------------------------
(* Mutations: up to MaxMutations mutate calls, overlapping or not, each     *)
(* resolving or rejecting, with reset() in between.                         *)

InitMutation ==
  MuIdle /\ MdIdle /\ HlIdle /\ OuIdle /\ IcIdle /\ AeIdle
    /\ LlIdle /\ FsIdle /\ LbIdle /\ EpIdle
SpecMutation == InitMutation /\ [][MuNext]_vars

\* C25: isLoading is true whenever some mutate call has been started and has
\* not settled.
C25_LoadingWhilePending ==
  (\E c \in MutateCalls : muCalls[c] = "pending") => muIsLoading

----------------------------------------------------------------------------
(* Form states: every sequence of up to MaxDispatches submit, success,      *)
(* setError and reset calls.                                                *)

InitForm ==
  FsIdle /\ MdIdle /\ HlIdle /\ OuIdle /\ IcIdle /\ AeIdle
    /\ LlIdle /\ MuIdle /\ LbIdle /\ EpIdle
SpecForm == InitForm /\ [][FsNext]_vars

\* C28: error is non-null only when status is 'error'; after SUBMIT, SUCCESS or
\* RESET the error is null; exactly one of isIdle, isSubmitting, isSuccess and
\* isError is true.
C28_FormState ==
  /\ fsState.error # Null => fsState.status = "error"
  /\ (fsLog # <<>> /\ fsLog[Len(fsLog)].type \in {"SUBMIT", "SUCCESS", "RESET"})
       => fsState.error = Null
  /\ Cardinality({k \in 1..4 : <<isIdle, isSubmitting, isSuccess, isError>>[k]}) = 1

\* setError with a string, then submit: the error set before is cleared.
C28_Witness ==
  /\ Len(fsLog) >= 2
  /\ fsLog[Len(fsLog) - 1].type = "ERROR"
  /\ fsLog[Len(fsLog)].type = "SUBMIT"
  /\ fsState = [status |-> "submitting", error |-> Null]
  /\ isSubmitting

----------------------------------------------------------------------------
(* Lightboxes: every non-empty list of up to MaxImages images and every     *)
(* initialIndex within range, then any sequence of keys and clicks.         *)

InitLightbox ==
  LbInit /\ MdIdle /\ HlIdle /\ OuIdle /\ IcIdle /\ AeIdle /\ LlIdle /\ MuIdle /\ FsIdle
    /\ EpIdle
SpecLightbox == InitLightbox /\ [][LbNext]_vars

\* C26: currentIndex is within 0..images.length-1; after goNext from the last
\* image it is 0, and after goPrev from image 0 it is the last image.
C26_IndexInRange ==
  /\ lbCurrentIndex \in 0..(lbLength - 1)
  /\ (lbLast.op = "goNext" /\ lbLast.from = lbLength - 1) => lbCurrentIndex = 0
  /\ (lbLast.op = "goPrev" /\ lbLast.from = 0) => lbCurrentIndex = lbLength - 1

\* goPrev on image 0 of several images has wrapped to the last image.
C26_Witness ==
  /\ lbLength = 3
  /\ lbLast = [op |-> "goPrev", from |-> 0]
  /\ lbCurrentIndex = 2

----------------------------------------------------------------------------
(* Emoji pickers: every stored list that is a run of up to RecentLimit      *)
(* different emojis, then any sequence of selections.                       *)

InitEmoji ==
  EpInit /\ MdIdle /\ HlIdle /\ OuIdle /\ IcIdle /\ AeIdle /\ LlIdle /\ MuIdle /\ FsIdle
    /\ LbIdle
SpecEmoji == InitEmoji /\ [][EpNext]_vars

NoDuplicates(list) ==
  \A j, k \in 1..Len(list) : list[j] = list[k] => j = k

\* C27: once the stored list is loaded, the recent list has at most RecentLimit
\* entries and no duplicates and the stored value is the JSON text of that
\* list; after a handleSelect call the emoji selected last is its first entry.
C27_RecentList ==
  epPc = "mounted" =>
    /\ Len(epRecent) <= RecentLimit
    /\ NoDuplicates(epRecent)
    /\ epStored # Null =>
         /\ epStored = JSONstringify(epRecent)
         /\ JSONparse(epStored) = epRecent
    /\ epLast # <<>> =>
         /\ epStored # Null
         /\ epRecent # <<>>
         /\ epRecent[1] = epLast[1]

\* A new emoji was selected on a full list: it is first, and the entry that
\* was last has gone.
C27_Witness ==
  /\ epPc = "mounted"
  /\ epLast = <<Alphabet[RecentLimit + 1]>>
  /\ Len(epRecent) = RecentLimit
  /\ epRecent[1] = Alphabet[RecentLimit + 1]
  /\ \A k \in 1..Len(epRecent) : epRecent[k] # Alphabet[RecentLimit]
  /\ epStored = JSONstringify(epRecent)

----------------------------------------------------------------------------
(* Every family of inputs together.                                        *)

Init ==
  \/ InitDocuments
  \/ InitFences
  \/ InitEmphasis
  \/ InitHeadings
  \/ InitTasks
  \/ InitHighlight
  \/ InitQuotedComments
  \/ InitImages
  \/ InitQuotes
  \/ InitLists
  \/ InitOrdered
  \/ InitRules
  \/ InitBlocks
  \/ InitParagraphs
  \/ InitOpenFences
  \/ InitLineNumbers
  \/ InitOptimistic
  \/ InitInfinite
  \/ InitAsyncEffect
  \/ InitLazyLoad
  \/ InitMutation
  \/ InitForm
  \/ InitLightbox
  \/ InitEmoji
Next ==
  Render \/ Highlight \/ OuNext \/ IcNext \/ AeNext \/ LlNext \/ MuNext \/ FsNext
    \/ LbNext \/ EpNext
Spec == Init /\ [][Next]_vars
====
